---- MODULE Spec2Model ----
(***************************************************************************)
(* A model of claude-code-acp-py: the ACP client stub (AcpClient) with its *)
(* terminal registry and its file and update handlers, the proxy session   *)
(* manager and the CPP server that drives them, the CPP server's framed    *)
(* transport on stdin and stdout (bytes, headers, JSON texts), and the ACP *)
(* agent adapter (ClaudeAcpAgent) with its sessions, prompts and           *)
(* permission handler.                                                     *)
(*                                                                         *)
(* Text is a sequence of one-character strings, so that Python's prefix    *)
(* and substring tests are computed and not assumed.  One AcpClient, one   *)
(* ProxySession and one ClaudeAcpAgent are modelled step by step; the      *)
(* session manager is modelled a second time over several session ids,    *)
(* each CPP request handled whole, and ClaudeClient's text buffer beside   *)
(* it.  The backend agent, the CPP client, the Claude SDK, the adapter's   *)
(* ACP client and the event loop's scheduling are the environment.         *)
(***************************************************************************)
EXTENDS Naturals, Integers, Sequences, FiniteSets, TLC

(* ------------------------------ bounds -------------------------------- *)

\* API calls one caller makes on a directly used AcpClient
MaxCalls == 5
\* terminal/create requests the agent makes in one run
MaxTerminals == 2
\* CPP requests the CPP client sends in one run
MaxRequests == 3
\* CPP requests waiting unread on the server's stdin
MaxQueue == 1
\* session updates the agent emits in one run of the proxy
MaxUpdates == 1
\* tool updates the agent emits in one run of the tool scenario
MaxToolUpdates == 3
\* text chunks the agent emits in one run of the deduplication scenario
MaxChunks == 4
\* connect and disconnect calls in one run of the terminal handlers
MaxLifeCalls == 3
\* sessions the agent adapter creates in one run
MaxSessions == 2
\* messages the SDK yields in one prompt before the ResultMessage
MaxMessages == 2
\* frames the CPP client writes to the server's stdin in one run
MaxFrames == 2
\* session.event notifications sent while requests are answered
MaxEvents == 1
\* how many CPP requests the server handles before it is stopped
MaxServed == 4
\* text chunks a backend streams over the two prompts of a session
MaxTextChunks == 3

(* --------------------------- text helpers ----------------------------- *)

\* str.startswith: p is a prefix of t
StartsWith(t, p) ==
    /\ Len(p) <= Len(t)
    /\ SubSeq(t, 1, Len(p)) = p

\* Python's `s in t` on strings: s occurs in t as a contiguous substring
Contains(t, s) ==
    \E i \in 0..(Len(t) - Len(s)) : SubSeq(t, i + 1, i + Len(s)) = s

(* ------------------------------ state --------------------------------- *)

VARIABLES
    \* AcpClient fields
    process,          \* _process: 0 is None, else an index into procs
    connection,       \* _connection is not None
    initialized,      \* _initialized
    session_id,       \* _session_id: 0 is None
    text_buffer,      \* _text_buffer
    pending_model,    \* _pending_model: "none" is None
    terminals,        \* keys of _terminals: N stands for "terminal-N"
    terminal_counter, \* _terminal_counter
    \* what the client owns outside its fields
    procs,            \* agent subprocesses ever spawned: their OS state
    termProcs,        \* terminal subprocesses ever spawned: id -> OS state
    creating,         \* create_terminal handlers suspended in the spawn
    killing,          \* kill_terminal handlers suspended in process.wait()
    termReply,        \* how the last release_terminal / kill_terminal ended
    fileReply,        \* the last read_text_file: what it met and how it ended
    dispatched,       \* the last session update given to a user's handlers
    handlerQ,         \* session/update notifications whose handler has not run
    \* the calling task (a library user, or the CPP server's reader task)
    pc,               \* where the calling task is suspended
    lastCall,         \* the AcpClient method the caller entered last
    nCalls,           \* how many API calls a library user made
    pc2,              \* where a second task of the library user is suspended
    \* ProxySession and ProxySessionManager
    sessExists,       \* the session id is a key of _sessions
    is_active,        \* ProxySession.is_active
    events,           \* ProxySession.events
    \* AcpProxyServer
    handler,          \* the CPP request being handled
    cppIn,            \* CPP requests received on stdin and not yet read
    nRequests,        \* how many CPP requests the CPP client sent
    \* the backend agent
    bePrompt,         \* "idle", "running", or the answer it gave: "ok", "err"
    nUpdates,         \* how many session updates the agent emitted
    \* history
    trace,            \* requests sent to the agent and pending-model stores
    signals,          \* signals sent to subprocesses, in order
    wire,             \* frames written to the CPP client, in order
    cancels,          \* cancel notifications forwarded to the agent
    inbound,          \* session updates handled by session_update, in order
    \* ClaudeAcpAgent, the ACP agent adapter
    conn,             \* _conn is not None
    sessions,         \* _sessions: session id -> Session
    turn,             \* session id -> where the session's prompt coroutine is
    emitted,          \* session id -> the session updates sent to the client
    permission,       \* the last can_use_tool call: what it met and decided
    answered,         \* the last response the adapter gave to a request
    input_stream,     \* the bytes on the server's stdin that are not yet read
    input_eof,        \* the CPP client closed the server's stdin
    written,          \* the frames the CPP client wrote, in order
    tasks,            \* the server's reader task and a session's notifier task
    content_length,   \* content_length of _process_messages
    decoded,          \* what each frame the reader consumed came to, in order
    output_stream,    \* the bytes written to the server's stdout
    sent,             \* the messages given to _send_message, in order
    \* ProxySessionManager and AcpProxyServer, with every session by its id
    manager_sessions, \* _sessions: session id -> ProxySession
    last_session_id,  \* _last_session_id: 0 is None
    backends,         \* the AcpClients that create_session constructed
    served,           \* how many CPP requests the server has handled
    running,          \* the server was not stopped yet
    handled,          \* what the handler of the last CPP request did
    \* the Claude SDK behind an adapter that is a session's backend
    tool_results,     \* the ToolResultBlocks the SDK gave the adapter, in order
    \* ClaudeClient, the in-process client of a library user
    query,            \* query(): where it is, _text_buffer, what on_text got
    \* a ProxySession's AcpClient as the handler of permission requests
    permission_reply  \* the last session/request_permission and its response

clientVars == <<process, connection, initialized, session_id, text_buffer,
                pending_model, terminals, terminal_counter>>
\* the outcome of a terminal handler: which one, whether it found an entry
\* under the id it was given, and whether an exception left it (the agent then
\* gets an error response)
Reply(op, found, err) == [op |-> op, found |-> found, err |-> err]
NoReply == Reply("-", FALSE, FALSE)

\* what the agent gets from read_text_file: a result value with its content
\* and error entries ("-" where the dict has no error key), or the error
\* response of a handler that raised
Result(content, error) == [raised |-> FALSE, content |-> content, error |-> error]
ErrorResponse == [raised |-> TRUE, content |-> <<>>, error |-> "-"]

\* no read_text_file was handled yet
NoRead == [hook |-> "-", fs |-> "-", out |-> Result(<<>>, "-")]

\* how session_update ended for one update: whether a registered handler was
\* called, whether it raised, whether the exception left session_update, and
\* how often on_error was called
Dispatch(called, raised, propagated, errors) ==
    [called |-> called, raised |-> raised, propagated |-> propagated,
     errors |-> errors]
NoDispatch == Dispatch(FALSE, FALSE, FALSE, 0)

\* what the reverse-call handlers last did
replyVars == <<termReply, fileReply, dispatched>>
ownedVars == <<procs, termProcs, creating, killing, replyVars>>
callerVars == <<pc, lastCall, nCalls, pc2>>
sessVars == <<sessExists, is_active, events>>
srvVars == <<handler, cppIn, nRequests>>
beVars == <<bePrompt, nUpdates>>
proxyVars == <<sessVars, srvVars, beVars, wire, cancels, inbound>>
agentVars == <<conn, sessions, turn, emitted, permission, answered>>
\* everything outside the agent adapter
stubVars == <<clientVars, ownedVars, handlerQ, callerVars, proxyVars, trace, signals>>
stdioVars == <<input_stream, input_eof, written, tasks, content_length, decoded,
               output_stream, sent>>
\* the session manager and the server that owns it
mgrVars == <<manager_sessions, last_session_id, backends, served, running, handled>>
sdkVars == <<tool_results, query, permission_reply>>
vars == <<stubVars, agentVars, stdioVars, mgrVars, sdkVars>>

Models == {"m1", "m2"}
NoModel == "none"
NoReq == [kind |-> "none", model |-> NoModel, during |-> FALSE]

Entry(m, a) == [m |-> m, a |-> a]

\* a response of the adapter: the method, the session id it named, and the
\* result or the exception
Answer(op, sid, out) == [op |-> op, sid |-> sid, out |-> out]

\* a can_use_tool call: the session and the tool, whether
\* session/request_permission was sent and with which option ids, the
\* client's answer, and the decision with its message
Permission(sid, tool, asked, options, answer, result, message) ==
    [sid |-> sid, tool |-> tool, asked |-> asked, options |-> options,
     answer |-> answer, result |-> result, message |-> message]
\* no response to session/request_permission (yet)
NoAnswer == [outcome |-> "unanswered", option_id |-> "-"]
NoPermission == Permission(0, "-", FALSE, <<>>, NoAnswer, "-", "-")

(* ClaudeAcpAgent.__init__ *)
AgentInit ==
    /\ conn = FALSE
    /\ sessions = <<>>
    /\ turn = <<>>
    /\ emitted = <<>>
    /\ permission = NoPermission
    /\ answered = Answer("-", 0, "-")

\* a task of the server's event loop: where it is, the messages it has still
\* to send, and the number of the frame they answer (0: none)
Task(at, out, re) == [at |-> at, out |-> out, re |-> re]

\* the server has started: the reader waits for the first header line
StdioInit ==
    /\ input_stream = <<>>
    /\ input_eof = FALSE
    /\ written = <<>>
    /\ tasks = [reader |-> Task("header", <<>>, 0),
                notifier |-> Task("idle", <<>>, 0)]
    /\ content_length = 0
    /\ decoded = <<>>
    /\ output_stream = <<>>
    /\ sent = <<>>

\* sessionId parameters of CPP requests; 0 stands for a missing sessionId
ManagerIds == {1, 2}
\* str(uuid.uuid4()) of the n-th backend client's session: unlike every
\* supplied id and every other generated one
Uuid(n) == 100 + n

\* an AcpClient the manager constructed: the agent subprocess ("none" before
\* the spawn), _connection, _initialized, _session_id (is not None),
\* _pending_model, and how many terminal subprocesses it holds
Backend(proc, c, i, s, m, t) ==
    [process |-> proc, connection |-> c, initialized |-> i, session_id |-> s,
     pending_model |-> m, terminals |-> t]

\* a ProxySession: its backend client (an index into backends), its
\* working_directory, is_active, the handler whose closure is event_callback,
\* and events
ProxySession(b, cwd, n) ==
    [backend_client |-> b, working_directory |-> cwd, is_active |-> TRUE,
     event_callback |-> n, events |-> <<>>]

\* a session.event notification of _send_session_event
SessionEv(sid, type, data) == [sessionId |-> sid, type |-> type, data |-> data]

\* what the handler of a CPP request did: the method and the sessionId
\* parameter, the events it (and the backend handlers it ran) gave to the
\* wire, whether a session/prompt request went to a backend, then the
\* response: an error (-32603) or a result with its members
Handled(method, sid, frames, prompted, error, rid, success, listed, replay) ==
    [method |-> method, sid |-> sid, frames |-> frames, prompted |-> prompted,
     error |-> error, sessionId |-> rid, success |-> success,
     listed |-> listed, events |-> replay]
NoHandled == Handled("-", 0, <<>>, FALSE, FALSE, 0, FALSE, {}, <<>>)

\* an empty _sessions
NoSessions == [sid \in {} |-> 0]

(* ProxySessionManager.__init__ and AcpProxyServer.start *)
ManagerInit ==
    /\ manager_sessions = NoSessions
    /\ last_session_id = 0
    /\ backends = <<>>
    /\ served = 0
    /\ running = TRUE
    /\ handled = NoHandled

\* RequestPermissionResponse(outcome=AllowedOutcome(outcome, option_id)) to
\* a session/request_permission that offered the options
PermissionReply(options, outcome, option_id) ==
    [options |-> options, outcome |-> outcome, option_id |-> option_id]
NoPermissionReply == PermissionReply(<<>>, "-", "-")

\* ClaudeClient: whether query() is running and how many were started, the
\* _text_buffer, the texts on_text was called with since the last query began,
\* and what the last query returned
Query(at, n, buf, deltas, returned) ==
    [at |-> at, n |-> n, text_buffer |-> buf, deltas |-> deltas,
     returned |-> returned]
\* ClaudeClient.__init__
NoQuery == Query("idle", 0, <<>>, <<>>, <<>>)

(* AcpClient.__init__ *)
FreshClient ==
    /\ process = 0
    /\ connection = FALSE
    /\ initialized = FALSE
    /\ session_id = 0
    /\ text_buffer = <<>>
    /\ pending_model = NoModel
    /\ terminals = {}
    /\ terminal_counter = 0

(* AcpProxyServer.__init__ and ProxySessionManager.__init__ *)
ProxyInit ==
    /\ sessExists = FALSE
    /\ is_active = FALSE
    /\ events = <<>>
    /\ handler = NoReq
    /\ cppIn = <<>>
    /\ nRequests = 0
    /\ bePrompt = "idle"
    /\ nUpdates = 0
    /\ wire = <<>>
    /\ cancels = <<>>
    /\ inbound = <<>>

Init ==
    /\ FreshClient
    /\ ProxyInit
    /\ procs = <<>>
    /\ termProcs = <<>>
    /\ creating = 0
    /\ killing = {}
    /\ termReply = NoReply
    /\ fileReply = NoRead
    /\ dispatched = NoDispatch
    /\ AgentInit
    /\ StdioInit
    /\ ManagerInit
    /\ tool_results = <<>>
    /\ query = NoQuery
    /\ permission_reply = NoPermissionReply
    /\ handlerQ = <<>>
    /\ pc = "idle"
    /\ lastCall = "none"
    /\ nCalls = 0
    /\ pc2 = "idle"
    /\ trace = <<>>
    /\ signals = <<>>

\* a client method returns, to the library user or into the CPP handler
Return == pc' = IF handler = NoReq THEN "idle" ELSE "respond"

\* a client method raises
Raise == pc' = IF handler = NoReq THEN "idle" ELSE "respond_err"

(* ------------------------ AcpClient.connect --------------------------- *)

\* a library user enters an API method
Enter(name) ==
    /\ pc = "idle"
    /\ handler = NoReq
    /\ nCalls < MaxCalls
    /\ lastCall' = name
    /\ nCalls' = nCalls + 1
    /\ UNCHANGED pc2

\* the subprocess is spawned, the connection built and initialize sent
Spawn ==
    /\ procs' = Append(procs, "running")
    /\ process' = Len(procs) + 1
    /\ connection' = TRUE
    /\ trace' = Append(trace, Entry("initialize", "-"))

\* connect: return at once when a subprocess exists, else spawn
ConnectBody ==
    IF process # 0
    THEN /\ Return
         /\ UNCHANGED <<clientVars, ownedVars, agentVars, stdioVars, trace, signals, mgrVars, sdkVars>>
    ELSE /\ Spawn
         /\ pc' = "connect_init"
         /\ UNCHANGED <<initialized, session_id, text_buffer, pending_model,
                        terminals, terminal_counter, termProcs, creating, killing, replyVars, agentVars, stdioVars, signals, mgrVars, sdkVars>>

Connect ==
    /\ Enter("connect")
    /\ ConnectBody
    /\ UNCHANGED <<handlerQ, proxyVars, mgrVars, sdkVars>>

\* the initialize response arrives
ConnectInitOk ==
    /\ pc = "connect_init"
    /\ initialized' = TRUE
    /\ Return
    /\ UNCHANGED <<process, connection, session_id, text_buffer, pending_model,
                   terminals, terminal_counter, ownedVars, agentVars, stdioVars, handlerQ, lastCall,
                   nCalls, pc2, proxyVars, trace, signals, mgrVars, sdkVars>>

\* initialize fails: the exception leaves connect, the subprocess stays
ConnectInitFail ==
    /\ pc = "connect_init"
    /\ Raise
    /\ UNCHANGED <<clientVars, ownedVars, agentVars, stdioVars, handlerQ, lastCall, nCalls, pc2, proxyVars,
                   trace, signals, mgrVars, sdkVars>>

(* ----------------------- AcpClient.disconnect ------------------------- *)

\* a spawned terminal subprocess: the id it was registered under, its OS
\* state, and (for the record) the ids already removed when it was returned
Term(id, st, after) == [id |-> id, st |-> st, after |-> after]

\* the process a registry entry holds: the last one stored under the id
Held(tp, id) ==
    CHOOSE i \in DOMAIN tp :
        tp[i].id = id /\ \A j \in DOMAIN tp : tp[j].id = id => j <= i

\* process.kill() on the processes registered under ids
KillAll(tp, ids) ==
    [i \in DOMAIN tp |->
        IF tp[i].id \in ids /\ i = Held(tp, tp[i].id)
        THEN [tp[i] EXCEPT !.st = "killed"] ELSE tp[i]]

RECURSIVE KillSignals(_)
KillSignals(ids) ==
    IF ids = {} THEN <<>>
    ELSE LET i == CHOOSE x \in ids : \A y \in ids : x <= y
         IN <<Entry("term_kill", i)>> \o KillSignals(ids \ {i})

\* the tail of disconnect: the flags are reset
ResetFlags ==
    /\ initialized' = FALSE
    /\ session_id' = 0
    /\ Return

\* the subprocess terminated while the connection stays open
AfterClearNoClose ==
    IF process # 0
    THEN /\ signals' = Append(signals, Entry("terminate", process))
         /\ pc' = "disc_wait_term"
         /\ UNCHANGED <<process, initialized, session_id, procs, mgrVars, sdkVars>>
    ELSE /\ ResetFlags
         /\ UNCHANGED <<process, procs, signals, mgrVars, sdkVars>>

\* disconnect once the registry is cleared: the connection is closed if there
\* is one, else the subprocess is terminated if there is one
AfterClear ==
    IF connection
    THEN /\ signals' = Append(signals, Entry("close", process))
         /\ pc' = "disc_close"
         /\ UNCHANGED <<process, initialized, session_id, procs, mgrVars, sdkVars>>
    ELSE IF process # 0
    THEN /\ signals' = Append(signals, Entry("terminate", process))
         /\ pc' = "disc_wait_term"
         /\ UNCHANGED <<process, initialized, session_id, procs, mgrVars, sdkVars>>
    ELSE /\ ResetFlags
         /\ UNCHANGED <<process, procs, signals, mgrVars, sdkVars>>

\* disconnect starts: every registered terminal is killed and awaited
DisconnectBody ==
    IF terminals # {}
    THEN /\ termProcs' = KillAll(termProcs, terminals)
         /\ signals' = signals \o KillSignals(terminals)
         /\ pc' = "disc_terms"
         /\ UNCHANGED <<clientVars, procs, creating, killing, replyVars, agentVars, stdioVars, trace, mgrVars, sdkVars>>
    ELSE /\ AfterClear
         /\ UNCHANGED <<connection, text_buffer, pending_model, terminals,
                        terminal_counter, termProcs, creating, killing, replyVars, agentVars, stdioVars, trace, mgrVars, sdkVars>>

Disconnect ==
    /\ Enter("disconnect")
    /\ DisconnectBody
    /\ UNCHANGED <<handlerQ, proxyVars, mgrVars, sdkVars>>

\* the awaited terminals have exited: the registry is cleared
DisconnectClear ==
    /\ pc = "disc_terms"
    /\ terminals' = {}
    /\ AfterClear
    /\ UNCHANGED <<connection, text_buffer, pending_model, terminal_counter,
                   termProcs, creating, killing, replyVars, agentVars, stdioVars, handlerQ, lastCall, nCalls, pc2, proxyVars,
                   trace, mgrVars, sdkVars>>

\* connection.close() returned, failed or timed out: the handle is dropped,
\* handlers that have not finished are cancelled, the subprocess is terminated
DisconnectClosed ==
    /\ pc = "disc_close"
    /\ connection' = FALSE
    /\ creating' = 0
    /\ killing' = {}
    /\ UNCHANGED <<replyVars, agentVars, stdioVars, mgrVars, sdkVars>>
    /\ handlerQ' = <<>>
    /\ IF process # 0
       THEN /\ signals' = Append(signals, Entry("terminate", process))
            /\ pc' = "disc_wait_term"
            /\ UNCHANGED <<process, initialized, session_id, mgrVars, sdkVars>>
       ELSE /\ ResetFlags
            /\ UNCHANGED <<process, signals, mgrVars, sdkVars>>
    /\ UNCHANGED <<text_buffer, pending_model, terminals, terminal_counter,
                   procs, termProcs, lastCall, nCalls, pc2, proxyVars, trace, mgrVars, sdkVars>>

Observe(ps, p) == [ps EXCEPT ![p] = "observed"]

\* the subprocess exits within the terminate deadline
DisconnectTermExited ==
    /\ pc = "disc_wait_term"
    /\ procs' = Observe(procs, process)
    /\ process' = 0
    /\ ResetFlags
    /\ UNCHANGED <<connection, text_buffer, pending_model, terminals,
                   terminal_counter, termProcs, creating, killing, replyVars, agentVars, stdioVars, handlerQ, lastCall,
                   nCalls, pc2, proxyVars, trace, signals, mgrVars, sdkVars>>

\* the terminate deadline passes: kill is sent
DisconnectTermTimeout ==
    /\ pc = "disc_wait_term"
    /\ signals' = Append(signals, Entry("kill", process))
    /\ pc' = "disc_wait_kill"
    /\ UNCHANGED <<clientVars, ownedVars, agentVars, stdioVars, handlerQ, lastCall, nCalls, pc2, proxyVars,
                   trace, mgrVars, sdkVars>>

\* the subprocess exits within the kill deadline
DisconnectKillExited ==
    /\ pc = "disc_wait_kill"
    /\ procs' = Observe(procs, process)
    /\ process' = 0
    /\ ResetFlags
    /\ UNCHANGED <<connection, text_buffer, pending_model, terminals,
                   terminal_counter, termProcs, creating, killing, replyVars, agentVars, stdioVars, handlerQ, lastCall,
                   nCalls, pc2, proxyVars, trace, signals, mgrVars, sdkVars>>

\* the kill deadline passes too: a warning is logged, the handle is dropped
DisconnectKillTimeout ==
    /\ pc = "disc_wait_kill"
    /\ process' = 0
    /\ ResetFlags
    /\ UNCHANGED <<connection, text_buffer, pending_model, terminals,
                   terminal_counter, ownedVars, agentVars, stdioVars, handlerQ, lastCall, nCalls, pc2,
                   proxyVars, trace, signals, mgrVars, sdkVars>>

(* ------------- AcpClient.set_model and AcpClient.new_session ---------- *)

\* set_model: with no connection or no session the model is stored in the
\* pending slot; otherwise set_session_model is sent now
SetModelBody(m) ==
    IF ~connection \/ session_id = 0
    THEN /\ pending_model' = m
         /\ trace' = Append(trace, Entry("store_model", m))
    ELSE /\ trace' = trace \o <<Entry("direct_model", m), Entry("set_session_model", m)>>
         /\ UNCHANGED pending_model

SetModel(m) ==
    /\ Enter("set_model")
    /\ SetModelBody(m)
    /\ Return
    /\ UNCHANGED <<process, connection, initialized, session_id, text_buffer,
                   terminals, terminal_counter, ownedVars, agentVars, stdioVars, handlerQ, proxyVars,
                   signals, mgrVars, sdkVars>>

\* new_session: RuntimeError without a connection, else the request is sent
NewSessionBody ==
    IF ~connection
    THEN /\ Raise
         /\ UNCHANGED trace
    ELSE /\ trace' = Append(trace, Entry("new_session", "-"))
         /\ pc' = "new_wait"

NewSession ==
    /\ Enter("new_session")
    /\ NewSessionBody
    /\ UNCHANGED <<clientVars, ownedVars, agentVars, stdioVars, handlerQ, proxyVars, signals, mgrVars, sdkVars>>

\* the session ids the agent hands out are fresh
FreshSessionId == Cardinality({i \in 1..Len(trace) : trace[i].m = "new_session_ok"}) + 1

\* the slot left as it is
ClearPendingNever == UNCHANGED pending_model

\* finally: the slot is cleared whether set_session_model succeeded or not
ClearPending == pending_model' = NoModel

\* the new_session response arrives: the id is recorded and a pending model
\* is sent with set_session_model
NewSessionOk ==
    /\ pc = "new_wait"
    /\ lastCall = "new_session"
    /\ session_id' = FreshSessionId
    /\ IF pending_model # NoModel
       THEN /\ trace' = trace \o <<Entry("new_session_ok", "-"),
                                   Entry("set_session_model", pending_model)>>
            /\ pc' = "model_wait"
       ELSE /\ trace' = Append(trace, Entry("new_session_ok", "-"))
            /\ Return
    /\ UNCHANGED <<process, connection, initialized, text_buffer, pending_model,
                   terminals, terminal_counter, ownedVars, agentVars, stdioVars, handlerQ, lastCall,
                   nCalls, pc2, proxyVars, signals, mgrVars, sdkVars>>

\* the agent answers new_session with an error: it leaves new_session
NewSessionFail ==
    /\ pc = "new_wait"
    /\ lastCall = "new_session"
    /\ Raise
    /\ UNCHANGED <<clientVars, ownedVars, agentVars, stdioVars, handlerQ, lastCall, nCalls, pc2, proxyVars,
                   trace, signals, mgrVars, sdkVars>>

\* set_session_model is answered with a result
ModelApplied ==
    /\ pc = "model_wait"
    /\ lastCall = "new_session"
    /\ ClearPending
    /\ Return
    /\ UNCHANGED <<process, connection, initialized, session_id, text_buffer,
                   terminals, terminal_counter, ownedVars, agentVars, stdioVars, handlerQ, lastCall,
                   nCalls, pc2, proxyVars, trace, signals, mgrVars, sdkVars>>

\* a rejected set_session_model that leaves new_session as an exception
ModelRejectedRaises ==
    /\ pc = "model_wait"
    /\ lastCall = "new_session"
    /\ trace' = Append(trace, Entry("model_rejected", pending_model))
    /\ Raise
    /\ UNCHANGED <<clientVars, ownedVars, agentVars, stdioVars, handlerQ, lastCall,
                   nCalls, pc2, proxyVars, signals, mgrVars, sdkVars>>

\* set_session_model is answered with an error: the except clause logs it,
\* the finally clause clears the slot, and new_session returns the session id
ModelRejected ==
    /\ pc = "model_wait"
    /\ lastCall = "new_session"
    /\ ClearPending
    /\ trace' = trace \o <<Entry("model_rejected", pending_model),
                            Entry("new_session_returns", "-")>>
    /\ Return
    /\ UNCHANGED <<process, connection, initialized, session_id, text_buffer,
                   terminals, terminal_counter, ownedVars, agentVars, stdioVars, handlerQ, lastCall,
                   nCalls, pc2, proxyVars, signals, mgrVars, sdkVars>>

(* --------------- ClientHandler.create_terminal (reverse call) --------- *)

\* the agent asks for a terminal: the handler suspends in the spawn
TermCreateStart ==
    /\ connection
    /\ terminal_counter + creating < MaxTerminals
    /\ creating' = creating + 1
    /\ UNCHANGED <<clientVars, procs, termProcs, killing, replyVars, agentVars, stdioVars, handlerQ, callerVars, proxyVars,
                   trace, signals, mgrVars, sdkVars>>

\* an id taken from the size of the registry
RegistrySizeId == Cardinality(terminals) + 1

\* the ids returned so far whose entry is no longer in the registry
Removed == {termProcs[i].id : i \in DOMAIN termProcs} \ terminals

\* the id a finished create_terminal returns
NextTerminalId == terminal_counter + 1

\* the spawn returned: the counter is advanced and the terminal registered
TermCreateFinish ==
    /\ creating > 0
    /\ connection
    /\ creating' = creating - 1
    /\ terminal_counter' = NextTerminalId
    /\ terminals' = terminals \cup {NextTerminalId}
    /\ termProcs' = Append(termProcs, Term(NextTerminalId, "running", Removed))
    /\ UNCHANGED <<process, connection, initialized, session_id, text_buffer,
                   pending_model, procs, killing, replyVars, agentVars, stdioVars, handlerQ, callerVars, proxyVars,
                   trace, signals, mgrVars, sdkVars>>

\* the hook refused the command or the spawn failed: "" is returned with an
\* error and neither the counter nor the registry changes
TermCreateFail ==
    /\ creating > 0
    /\ connection
    /\ creating' = creating - 1
    /\ UNCHANGED <<clientVars, procs, termProcs, killing, replyVars, agentVars, stdioVars, handlerQ, callerVars,
                   proxyVars, trace, signals, mgrVars, sdkVars>>

(* ------- ClientHandler.release_terminal and kill_terminal ------------- *)

\* the ids an agent may name: those of the terminals and one never returned
TerminalIds == 1 .. (MaxTerminals + 1)

\* `del client._terminals[terminal_id]` without the membership test
DeletedUnchecked(id) ==
    [terminals |-> terminals \ {id}, err |-> id \notin terminals]

\* `if terminal_id in client._terminals: del client._terminals[terminal_id]`:
\* the registry afterwards, and whether the statement raised
Deleted(id) == [terminals |-> terminals \ {id}, err |-> FALSE]

\* release_terminal: the entry is deleted if there is one; the process is
\* left alone
ReleaseTerminal(id) ==
    /\ connection
    /\ terminals' = Deleted(id).terminals
    /\ termReply' = Reply("release", id \in terminals, Deleted(id).err)
    /\ UNCHANGED <<process, connection, initialized, session_id, text_buffer,
                   pending_model, terminal_counter, procs, termProcs, creating,
                   killing, fileReply, dispatched, agentVars, stdioVars, handlerQ, callerVars, proxyVars, trace,
                   signals, mgrVars, sdkVars>>

\* kill_terminal up to its await: it returns at once for an id without an
\* entry, else the process is killed and its exit awaited
KillTerminalStart(id) ==
    /\ connection
    /\ id \notin killing
    /\ IF id \in terminals
       THEN /\ termProcs' = KillAll(termProcs, {id})
            /\ killing' = killing \cup {id}
            /\ UNCHANGED <<replyVars, agentVars, stdioVars, mgrVars, sdkVars>>
       ELSE /\ termReply' = Reply("kill", FALSE, FALSE)
            /\ UNCHANGED <<termProcs, killing, mgrVars, sdkVars>>
    /\ UNCHANGED <<clientVars, procs, creating, fileReply, dispatched, agentVars, stdioVars, handlerQ, callerVars,
                   proxyVars, trace, signals, mgrVars, sdkVars>>

\* the killed process has exited (or the kill failed and was logged): the
\* entry is deleted if it is still there
KillTerminalFinish(id) ==
    /\ id \in killing
    /\ killing' = killing \ {id}
    /\ terminals' = Deleted(id).terminals
    /\ termReply' = Reply("kill", TRUE, Deleted(id).err)
    /\ UNCHANGED <<process, connection, initialized, session_id, text_buffer,
                   pending_model, terminal_counter, procs, termProcs, creating,
                   fileReply, dispatched, agentVars, stdioVars, handlerQ, callerVars, proxyVars, trace, signals, mgrVars, sdkVars>>

(* ------------------- ClientHandler.read_text_file --------------------- *)

\* what the on_file_read hook does: none is registered, it returns a text,
\* it returns None, or it raises
HookOutcomes == {"unset", "text", "none", "raises"}

\* what the file system does: the file is there, it is missing, or
\* exists() / read_text() raise
FileOutcomes == {"file", "missing", "io_error"}

\* texts a hook or a file may hold
FileTexts == {<<>>, <<"a">>}

\* read_text_file: the hook is awaited outside the try block; only the file
\* access is inside it
read_text_file(hook, override, fs, text) ==
    IF hook = "raises" THEN ErrorResponse
    ELSE IF hook = "text" THEN Result(override, "-")
    ELSE IF fs = "missing" THEN Result(<<>>, "File not found")
    ELSE IF fs = "io_error" THEN Result(<<>>, "str(e)")
    ELSE Result(text, "-")

\* the agent sends fs/read_text_file
ReadTextFile(hook, override, fs, text) ==
    /\ connection
    /\ fileReply' = [hook |-> hook, fs |-> fs,
                     out |-> read_text_file(hook, override, fs, text)]
    /\ UNCHANGED <<clientVars, procs, termProcs, creating, killing, termReply,
                   dispatched, agentVars, stdioVars, handlerQ, callerVars, proxyVars, trace, signals, mgrVars, sdkVars>>

(* --------------- ClientHandler.session_update and its handlers -------- *)

\* a CPP event envelope (id and timestamp left out): type and data
Ev(type, text, id, ok) == [type |-> type, text |-> text, id |-> id, ok |-> ok]
NoEv == Ev("-", <<>>, "-", FALSE)

\* a frame written to the CPP client: a session.event notification, sent by
\* the session's event sink or by the server itself, or a response
EventFrame(via, ev) == [k |-> "event", via |-> via, ev |-> ev, payload |-> <<>>]
Response(k, req, payload) == [k |-> k, via |-> req, ev |-> NoEv, payload |-> payload]

\* session updates the agent sends
TextUpdate(t) == [u |-> "text", text |-> t, id |-> "-", status |-> "-"]
ThoughtUpdate(t) == [u |-> "thought", text |-> t, id |-> "-", status |-> "-"]
ToolStart(id) == [u |-> "tool_start", text |-> <<>>, id |-> id, status |-> "-"]
ToolProgress(id, st) == [u |-> "tool_progress", text |-> <<>>, id |-> id, status |-> st]

\* AgentMessageChunk: the chunk is taken when it is non-empty and does not
\* occur in the buffer
TakesChunk(buf, t) == t # <<>> /\ ~Contains(buf, t)

\* a buffer that takes no chunk
BufferKept(buf, t) == buf

\* the buffer after an AgentMessageChunk
BufferAfter(buf, t) == IF TakesChunk(buf, t) THEN buf \o t ELSE buf

\* what on_text receives for an AgentMessageChunk: nothing, or the chunk
TextEmitted(buf, t) == IF TakesChunk(buf, t) THEN <<t>> ELSE <<>>

\* on_tool_end: success
ToolSuccess(status) == status = "success" \/ status = ""

\* the CPP events the registered handlers make of one session update
HandlerEvents(buf, u) ==
    IF u.u = "text"
    THEN [i \in 1..Len(TextEmitted(buf, u.text)) |->
             Ev("assistant.message_delta", TextEmitted(buf, u.text)[i], "-", FALSE)]
    ELSE IF u.u = "thought"
    THEN <<Ev("assistant.reasoning_delta", u.text, "-", FALSE)>>
    ELSE IF u.u = "tool_start"
    THEN <<Ev("tool.execution_start", <<>>, u.id, FALSE)>>
    ELSE <<Ev("tool.execution_complete", <<>>, u.id, ToolSuccess(u.status))>>

SinkFrames(evs) == [i \in 1..Len(evs) |-> EventFrame("sink", evs[i])]

\* the task of one inbound session/update runs: session_update, then the
\* handler appends its event to the log and calls the event sink
RunHandler ==
    /\ handlerQ # <<>>
    /\ connection
    /\ LET u == Head(handlerQ)
           evs == HandlerEvents(text_buffer, u)
       IN /\ text_buffer' = (IF u.u = "text" THEN BufferAfter(text_buffer, u.text)
                             ELSE text_buffer)
          /\ events' = events \o evs
          /\ wire' = wire \o SinkFrames(evs)
          /\ inbound' = Append(inbound, u)
    /\ handlerQ' = Tail(handlerQ)
    /\ UNCHANGED <<process, connection, initialized, session_id, pending_model,
                   terminals, terminal_counter, ownedVars, agentVars, stdioVars, callerVars, sessExists,
                   is_active, srvVars, beVars, cancels, trace, signals, mgrVars, sdkVars>>

\* whether session_update calls a handler for the update (all four are
\* registered): on_text for a chunk that is taken, on_thinking, on_tool_start
\* and on_tool_end always
CallsHandler(buf, u) == u.u = "text" => TakesChunk(buf, u.text)

\* session_update as written: the handlers are awaited with no try block
\* around them, so what a handler raises leaves session_update
session_update(buf, u, raises) ==
    Dispatch(CallsHandler(buf, u), CallsHandler(buf, u) /\ raises,
             CallsHandler(buf, u) /\ raises, 0)

\* the updates an agent sends to a directly used client
DirectUpdates ==
    {TextUpdate(t) : t \in {<<>>, <<"a">>, <<"b">>}}
        \cup {ThoughtUpdate(<<"a">>), ToolStart("t1"), ToolProgress("t1", "completed")}

\* a session update arrives at a client whose four handlers are registered by
\* its user; the chunk is added to the buffer before on_text is awaited
SessionUpdate(u, raises) ==
    /\ connection
    /\ text_buffer' = (IF u.u = "text" THEN BufferAfter(text_buffer, u.text)
                       ELSE text_buffer)
    /\ dispatched' = session_update(text_buffer, u, raises)
    /\ UNCHANGED <<process, connection, initialized, session_id, pending_model,
                   terminals, terminal_counter, procs, termProcs, creating,
                   killing, termReply, fileReply, agentVars, stdioVars, handlerQ,
                   callerVars, proxyVars, trace, signals, mgrVars, sdkVars>>

(* --------------------------- AcpClient.prompt ------------------------- *)

\* the buffer is reset and the prompt request sent
StartPrompt ==
    /\ text_buffer' = <<>>
    /\ bePrompt' = "running"
    /\ pc' = "prompt_wait"

\* prompt called from new_session's caller inside prompt: the response arrives
PromptNewSessionOk ==
    /\ pc = "new_wait"
    /\ lastCall = "prompt"
    /\ session_id' = FreshSessionId
    /\ IF pending_model # NoModel
       THEN /\ trace' = trace \o <<Entry("new_session_ok", "-"),
                                   Entry("set_session_model", pending_model)>>
            /\ pc' = "model_wait"
            /\ UNCHANGED <<text_buffer, bePrompt, mgrVars, sdkVars>>
       ELSE /\ trace' = trace \o <<Entry("new_session_ok", "-"), Entry("prompt", "-")>>
            /\ StartPrompt
    /\ UNCHANGED <<process, connection, initialized, pending_model, terminals,
                   terminal_counter, ownedVars, agentVars, stdioVars, handlerQ, lastCall, nCalls, pc2,
                   sessVars, srvVars, nUpdates, wire, cancels, inbound, signals, mgrVars, sdkVars>>

PromptNewSessionFail ==
    /\ pc = "new_wait"
    /\ lastCall = "prompt"
    /\ Raise
    /\ UNCHANGED <<clientVars, ownedVars, agentVars, stdioVars, handlerQ, lastCall, nCalls, pc2, proxyVars,
                   trace, signals, mgrVars, sdkVars>>

PromptModelApplied ==
    /\ pc = "model_wait"
    /\ lastCall = "prompt"
    /\ ClearPending
    /\ trace' = Append(trace, Entry("prompt", "-"))
    /\ StartPrompt
    /\ UNCHANGED <<process, connection, initialized, session_id, terminals,
                   terminal_counter, ownedVars, agentVars, stdioVars, handlerQ, lastCall, nCalls, pc2,
                   sessVars, srvVars, nUpdates, wire, cancels, inbound, signals, mgrVars, sdkVars>>

TurnEnd == Ev("assistant.turn_end", <<>>, "-", FALSE)
Idle == Ev("session.idle", <<>>, "-", FALSE)

\* on_complete: what it appends to the log before it calls the sink
CompleteLogged == <<TurnEnd, Idle>>

\* the prompt response arrives: on_complete extends the log and calls the
\* sink with the turn_end event
PromptOk ==
    /\ pc = "prompt_wait"
    /\ bePrompt = "ok"
    /\ bePrompt' = "idle"
    /\ events' = events \o CompleteLogged
    /\ wire' = Append(wire, EventFrame("sink", TurnEnd))
    /\ pc' = "complete_mid"
    /\ UNCHANGED <<clientVars, ownedVars, agentVars, stdioVars, handlerQ, lastCall, nCalls, pc2, sessExists,
                   is_active, srvVars, nUpdates, cancels, inbound, trace, signals, mgrVars, sdkVars>>

\* on_complete resumes: the sink is called with the idle event
PromptCompleteIdle ==
    /\ pc = "complete_mid"
    /\ wire' = Append(wire, EventFrame("sink", Idle))
    /\ Return
    /\ UNCHANGED <<clientVars, ownedVars, agentVars, stdioVars, handlerQ, lastCall, nCalls, pc2, sessVars,
                   srvVars, beVars, cancels, inbound, trace, signals, mgrVars, sdkVars>>

\* a failed prompt that runs on_complete's first half before it raises
PromptErrCompletes ==
    /\ pc = "prompt_wait"
    /\ bePrompt = "err"
    /\ bePrompt' = "idle"
    /\ wire' = Append(wire, EventFrame("sink", TurnEnd))
    /\ Raise
    /\ UNCHANGED <<clientVars, ownedVars, agentVars, stdioVars, handlerQ, lastCall, nCalls, pc2, sessVars,
                   srvVars, nUpdates, cancels, inbound, trace, signals, mgrVars, sdkVars>>

\* the agent answers the prompt with an error: no on_error is registered
PromptErr ==
    /\ pc = "prompt_wait"
    /\ bePrompt = "err"
    /\ bePrompt' = "idle"
    /\ Raise
    /\ UNCHANGED <<clientVars, ownedVars, agentVars, stdioVars, handlerQ, lastCall, nCalls, pc2, sessVars,
                   srvVars, nUpdates, wire, cancels, inbound, trace, signals, mgrVars, sdkVars>>

(* -------------------- a directly used AcpClient ----------------------- *)

NextClient ==
    \/ Connect
    \/ ConnectInitOk
    \/ ConnectInitFail
    \/ Disconnect
    \/ DisconnectClear
    \/ DisconnectClosed
    \/ DisconnectTermExited
    \/ DisconnectTermTimeout
    \/ DisconnectKillExited
    \/ DisconnectKillTimeout
    \/ \E m \in Models : SetModel(m)
    \/ NewSession
    \/ NewSessionOk
    \/ NewSessionFail
    \/ ModelApplied
    \/ ModelRejected
    \/ TermCreateStart
    \/ TermCreateFinish

SpecClient == Init /\ [][NextClient]_vars

\* the client's life cycle with every terminal handler the agent may call
NextTerminals ==
    \/ nCalls < MaxLifeCalls /\ Connect
    \/ ConnectInitOk
    \/ ConnectInitFail
    \/ nCalls < MaxLifeCalls /\ Disconnect
    \/ DisconnectClear
    \/ DisconnectClosed
    \/ DisconnectTermExited
    \/ DisconnectTermTimeout
    \/ DisconnectKillExited
    \/ DisconnectKillTimeout
    \/ TermCreateStart
    \/ TermCreateFinish
    \/ TermCreateFail
    \/ \E id \in TerminalIds : ReleaseTerminal(id)
    \/ \E id \in TerminalIds : KillTerminalStart(id)
    \/ \E id \in TerminalIds : KillTerminalFinish(id)

SpecTerminals == Init /\ [][NextTerminals]_vars

\* the client's life cycle with the agent's file reads
NextFiles ==
    \/ Connect
    \/ ConnectInitOk
    \/ ConnectInitFail
    \/ Disconnect
    \/ DisconnectClear
    \/ DisconnectClosed
    \/ DisconnectTermExited
    \/ DisconnectTermTimeout
    \/ DisconnectKillExited
    \/ DisconnectKillTimeout
    \/ TermCreateStart
    \/ TermCreateFinish
    \/ \E hook \in HookOutcomes, fs \in FileOutcomes, override, text \in FileTexts :
           ReadTextFile(hook, override, fs, text)

SpecFiles == Init /\ [][NextFiles]_vars

\* the client's life cycle with the agent's session updates
NextUpdates ==
    \/ Connect
    \/ ConnectInitOk
    \/ ConnectInitFail
    \/ Disconnect
    \/ DisconnectClear
    \/ DisconnectClosed
    \/ DisconnectTermExited
    \/ DisconnectTermTimeout
    \/ DisconnectKillExited
    \/ DisconnectKillTimeout
    \/ TermCreateStart
    \/ TermCreateFinish
    \/ \E u \in DirectUpdates, raises \in BOOLEAN : SessionUpdate(u, raises)

SpecUpdates == Init /\ [][NextUpdates]_vars

(* --------------------------- the backend agent ------------------------ *)

ToolIds == {"t1"}
ToolStatuses == {"", "in_progress", "completed", "failed"}

ProxyUpdates ==
    {TextUpdate(<<"a">>), ThoughtUpdate(<<"a">>)}
    \cup {ToolStart(id) : id \in ToolIds}
    \cup {ToolProgress(id, "completed") : id \in ToolIds}

\* while a prompt is outstanding the agent sends a session/update
BackendUpdate(u) ==
    /\ bePrompt = "running"
    /\ connection
    /\ handlerQ' = Append(handlerQ, u)
    /\ nUpdates' = nUpdates + 1
    /\ UNCHANGED <<clientVars, ownedVars, agentVars, stdioVars, callerVars, sessVars, srvVars, bePrompt,
                   wire, cancels, inbound, trace, signals, mgrVars, sdkVars>>

\* the agent answers the outstanding prompt, with a result or with an error
BackendAnswer(r) ==
    /\ bePrompt = "running"
    /\ bePrompt' = r
    /\ UNCHANGED <<clientVars, ownedVars, agentVars, stdioVars, handlerQ, callerVars, sessVars, srvVars,
                   nUpdates, wire, cancels, inbound, trace, signals, mgrVars, sdkVars>>

(* ---------------------------- AcpProxyServer -------------------------- *)

\* a session.send is waiting for the backend's answer to its prompt
SendWaiting == handler.kind = "send" /\ pc = "prompt_wait"

\* a create, or a resume that may have to create, is queued or being handled
CreatePending ==
    \/ handler.kind \in {"create", "resume"}
    \/ \E i \in 1..Len(cppIn) : cppIn[i].kind \in {"create", "resume"}

\* the CPP client writes a request to the server's stdin
CppRequest(kind, model) ==
    /\ nRequests < MaxRequests
    /\ Len(cppIn) < MaxQueue
    /\ kind \in {"create", "resume"} =>
           \/ kind = "resume" /\ sessExists
           \/ ~sessExists /\ ~CreatePending
    /\ model # NoModel => kind = "create"
    /\ cppIn' = Append(cppIn, [kind |-> kind, model |-> model,
                                during |-> kind = "abort" /\ SendWaiting])
    /\ nRequests' = nRequests + 1
    /\ UNCHANGED <<clientVars, ownedVars, agentVars, stdioVars, handlerQ, callerVars, sessVars, handler,
                   beVars, wire, cancels, inbound, trace, signals, mgrVars, sdkVars>>

\* _process_messages reads the next frame and awaits its handler
ReadRequest ==
    /\ pc = "idle"
    /\ handler = NoReq
    /\ cppIn # <<>>
    /\ handler' = Head(cppIn)
    /\ cppIn' = Tail(cppIn)
    /\ pc' = "dispatch"
    /\ UNCHANGED <<clientVars, ownedVars, agentVars, stdioVars, handlerQ, lastCall, nCalls, pc2, sessVars,
                   nRequests, beVars, wire, cancels, inbound, trace, signals, mgrVars, sdkVars>>

\* the handler is done: its response is written
Done(frames) ==
    /\ wire' = wire \o frames
    /\ handler' = NoReq
    /\ pc' = "idle"

\* session.create, and session.resume of an unknown id: create_session builds
\* a client and a session, registers the handlers and connects
HandleCreate ==
    /\ pc = "dispatch"
    /\ handler.kind = "create" \/ (handler.kind = "resume" /\ ~sessExists)
    /\ Spawn
    /\ initialized' = FALSE
    /\ session_id' = 0
    /\ text_buffer' = <<>>
    /\ pending_model' = NoModel
    /\ terminals' = {}
    /\ terminal_counter' = 0
    /\ creating' = 0
    /\ killing' = {}
    /\ UNCHANGED <<replyVars, agentVars, stdioVars, mgrVars, sdkVars>>
    /\ handlerQ' = <<>>
    /\ events' = <<>>
    /\ is_active' = TRUE
    /\ lastCall' = "connect"
    /\ pc' = "connect_init"
    /\ UNCHANGED <<termProcs, nCalls, pc2, sessExists, srvVars, beVars, wire, cancels,
                   inbound, signals, mgrVars, sdkVars>>

\* connect returned: the model is set, the session stored, session.start is
\* sent and the request answered
FinishCreate ==
    /\ pc = "respond"
    /\ handler.kind \in {"create", "resume"}
    /\ IF handler.model # NoModel
       THEN /\ SetModelBody(handler.model)
            /\ lastCall' = "set_model"
       ELSE UNCHANGED <<pending_model, trace, lastCall, mgrVars, sdkVars>>
    /\ sessExists' = TRUE
    /\ Done(<<EventFrame("server", Ev("session.start", <<>>, handler.model, FALSE)),
              Response("result", handler.kind, <<>>)>>)
    /\ UNCHANGED <<process, connection, initialized, session_id, text_buffer,
                   terminals, terminal_counter, ownedVars, agentVars, stdioVars, handlerQ, nCalls, pc2,
                   is_active, events, cppIn, nRequests, beVars, cancels, inbound,
                   signals, mgrVars, sdkVars>>

\* connect raised: create_session raises, the request is answered with an error
FailCreate ==
    /\ pc = "respond_err"
    /\ handler.kind \in {"create", "resume"}
    /\ Done(<<Response("error", handler.kind, <<>>)>>)
    /\ UNCHANGED <<clientVars, ownedVars, agentVars, stdioVars, handlerQ, lastCall, nCalls, pc2, sessVars,
                   cppIn, nRequests, beVars, cancels, inbound, trace, signals, mgrVars, sdkVars>>

\* session.resume of a known id: the sink is rebound, session.resume is sent
HandleResume ==
    /\ pc = "dispatch"
    /\ handler.kind = "resume"
    /\ sessExists
    /\ Done(<<EventFrame("server", Ev("session.resume", <<>>, "-", FALSE)),
              Response("result", "resume", <<>>)>>)
    /\ UNCHANGED <<clientVars, ownedVars, agentVars, stdioVars, handlerQ, lastCall, nCalls, pc2, sessVars,
                   cppIn, nRequests, beVars, cancels, inbound, trace, signals, mgrVars, sdkVars>>

UserMessage == Ev("user.message", <<>>, "-", FALSE)
TurnStart == Ev("assistant.turn_start", <<>>, "-", FALSE)
SessionError == Ev("session.error", <<>>, "-", FALSE)

\* session.send: what the server sends before it calls send_message
SendPrelude == <<EventFrame("server", UserMessage), EventFrame("server", TurnStart)>>

\* session.send: user.message and assistant.turn_start are sent, then
\* send_message calls client.prompt
HandleSend ==
    /\ pc = "dispatch"
    /\ handler.kind = "send"
    /\ wire' = wire \o SendPrelude
    /\ IF ~sessExists \/ ~connection
       THEN /\ pc' = "respond_err"
            /\ UNCHANGED <<text_buffer, bePrompt, trace, lastCall, mgrVars, sdkVars>>
       ELSE /\ lastCall' = "prompt"
            /\ IF session_id = 0
               THEN /\ trace' = Append(trace, Entry("new_session", "-"))
                    /\ pc' = "new_wait"
                    /\ UNCHANGED <<text_buffer, bePrompt, mgrVars, sdkVars>>
               ELSE /\ trace' = Append(trace, Entry("prompt", "-"))
                    /\ StartPrompt
    /\ UNCHANGED <<process, connection, initialized, session_id, pending_model,
                   terminals, terminal_counter, ownedVars, agentVars, stdioVars, handlerQ, nCalls, pc2,
                   sessVars, srvVars, nUpdates, cancels, inbound, signals, mgrVars, sdkVars>>

\* send_message returned the full text: the final assistant.message is sent
\* and the request answered
FinishSend ==
    /\ pc = "respond"
    /\ handler.kind = "send"
    /\ Done(<<EventFrame("server", Ev("assistant.message", text_buffer, "-", FALSE)),
              Response("result", "send", <<>>)>>)
    /\ UNCHANGED <<clientVars, ownedVars, agentVars, stdioVars, handlerQ, lastCall, nCalls, pc2, sessVars,
                   cppIn, nRequests, beVars, cancels, inbound, trace, signals, mgrVars, sdkVars>>

\* send_message raised: session.error is sent, the request answered with an error
FailSend ==
    /\ pc = "respond_err"
    /\ handler.kind = "send"
    /\ Done(<<EventFrame("server", SessionError), Response("error", "send", <<>>)>>)
    /\ UNCHANGED <<clientVars, ownedVars, agentVars, stdioVars, handlerQ, lastCall, nCalls, pc2, sessVars,
                   cppIn, nRequests, beVars, cancels, inbound, trace, signals, mgrVars, sdkVars>>

\* abort_session: client.cancel sends the cancel notification when the client
\* has a connection and a session
CancelSent == sessExists /\ connection /\ session_id # 0

\* session.abort: abort_session, then the abort event and the response
HandleAbort ==
    /\ pc = "dispatch"
    /\ handler.kind = "abort"
    /\ IF CancelSent
       THEN /\ trace' = Append(trace, Entry("cancel", "-"))
            /\ cancels' = Append(cancels, [during |-> handler.during,
                                           outstanding |-> bePrompt = "running"])
            /\ lastCall' = "cancel"
       ELSE UNCHANGED <<trace, cancels, lastCall, mgrVars, sdkVars>>
    /\ Done(<<EventFrame("server", Ev("abort", <<>>, "-", FALSE)),
              Response("result", "abort", <<>>)>>)
    /\ UNCHANGED <<clientVars, ownedVars, agentVars, stdioVars, handlerQ, nCalls, pc2, sessVars, cppIn,
                   nRequests, beVars, inbound, signals, mgrVars, sdkVars>>

\* session.destroy: session.shutdown is sent, then destroy_session marks the
\* session inactive and disconnects its client
HandleDestroy ==
    /\ pc = "dispatch"
    /\ handler.kind = "destroy"
    /\ wire' = Append(wire, EventFrame("server", Ev("session.shutdown", <<>>, "-", FALSE)))
    /\ IF sessExists
       THEN /\ is_active' = FALSE
            /\ lastCall' = "disconnect"
            /\ DisconnectBody
       ELSE /\ pc' = "respond"
            /\ UNCHANGED <<clientVars, ownedVars, agentVars, stdioVars, is_active, lastCall, trace, signals, mgrVars, sdkVars>>
    /\ UNCHANGED <<handlerQ, nCalls, pc2, sessExists, events, srvVars, beVars, cancels,
                   inbound, mgrVars, sdkVars>>

\* destroy_session returned: the request is answered
FinishDestroy ==
    /\ pc = "respond"
    /\ handler.kind = "destroy"
    /\ Done(<<Response("result", "destroy", <<>>)>>)
    /\ UNCHANGED <<clientVars, ownedVars, agentVars, stdioVars, handlerQ, lastCall, nCalls, pc2, sessVars,
                   cppIn, nRequests, beVars, cancels, inbound, trace, signals, mgrVars, sdkVars>>

\* get_session_events: the session's log, or nothing for an unknown id
SessionEvents == IF sessExists THEN events ELSE <<>>

\* session.getMessages: the log is returned
HandleGetMessages ==
    /\ pc = "dispatch"
    /\ handler.kind = "getMessages"
    /\ Done(<<Response("result", "getMessages", SessionEvents)>>)
    /\ UNCHANGED <<clientVars, ownedVars, agentVars, stdioVars, handlerQ, lastCall, nCalls, pc2, sessVars,
                   cppIn, nRequests, beVars, cancels, inbound, trace, signals, mgrVars, sdkVars>>

(* ------------------------- the proxy, one session --------------------- *)

RequestKinds == {"create", "resume", "send", "abort", "destroy", "getMessages"}

ServerStep ==
    \/ ReadRequest
    \/ HandleCreate
    \/ ConnectInitOk
    \/ ConnectInitFail
    \/ FinishCreate
    \/ FailCreate
    \/ HandleResume
    \/ HandleSend
    \/ PromptNewSessionOk
    \/ PromptNewSessionFail
    \/ PromptModelApplied
    \/ PromptOk
    \/ PromptCompleteIdle
    \/ PromptErr
    \/ FinishSend
    \/ FailSend
    \/ HandleAbort
    \/ HandleDestroy
    \/ DisconnectClosed
    \/ DisconnectTermExited
    \/ DisconnectTermTimeout
    \/ DisconnectKillExited
    \/ DisconnectKillTimeout
    \/ FinishDestroy
    \/ HandleGetMessages
    \/ RunHandler

NextProxy ==
    \/ \E k \in RequestKinds, m \in {NoModel, "m1"} : CppRequest(k, m)
    \/ ServerStep
    \/ \E u \in ProxyUpdates : nUpdates < MaxUpdates /\ BackendUpdate(u)
    \/ BackendAnswer("ok")
    \/ BackendAnswer("err")

SpecProxy == Init /\ [][NextProxy]_vars

(* ------------------ one session that is only sent prompts ------------- *)

\* the steps of the server and of the client on the way of a session.create
\* without a model and of a session.send
SendPath ==
    \/ ReadRequest
    \/ HandleCreate
    \/ ConnectInitOk
    \/ ConnectInitFail
    \/ FinishCreate
    \/ FailCreate
    \/ HandleSend
    \/ PromptNewSessionOk
    \/ PromptNewSessionFail
    \/ PromptOk
    \/ PromptCompleteIdle
    \/ PromptErr
    \/ FinishSend
    \/ FailSend
    \/ RunHandler

\* the CPP client creates a session without a model and sends it one prompt
SendRequests ==
    \/ nRequests = 0 /\ CppRequest("create", NoModel)
    \/ nRequests = 1 /\ CppRequest("send", NoModel)

\* the agent streams text: chunks that repeat, extend or lie inside what it
\* has sent
He == <<"H", "e">>
Hello == <<"H", "e", "l", "l", "o">>
World == <<" ", "w", "o", "r", "l", "d">>
Chunks == {He, Hello, World, <<"l">>}

NextDedup ==
    \/ SendRequests
    \/ SendPath
    \/ \E t \in Chunks : nUpdates < MaxChunks /\ BackendUpdate(TextUpdate(t))
    \/ BackendAnswer("ok")
    \/ BackendAnswer("err")

SpecDedup == Init /\ [][NextDedup]_vars

\* the agent reports tool calls
ToolUpdates ==
    {ToolStart(id) : id \in ToolIds}
    \cup {ToolProgress(id, st) : id \in ToolIds, st \in ToolStatuses}

NextTools ==
    \/ SendRequests
    \/ SendPath
    \/ \E u \in ToolUpdates : nUpdates < MaxToolUpdates /\ BackendUpdate(u)
    \/ BackendAnswer("ok")
    \/ BackendAnswer("err")

SpecTools == Init /\ [][NextTools]_vars

(* ========= the agent adapter as the backend of a ProxySession ========= *)

\* a ToolResultBlock of the SDK
ToolResultBlock(id, is_error) == [tool_use_id |-> id, is_error |-> is_error]

(* _handle_assistant_message, ToolResultBlock: the status of the update *)
ToolResultStatus(block) == IF block.is_error THEN "failed" ELSE "completed"

\* the adapter, working on the session's prompt, gets a tool result from the
\* SDK and sends the tool_call_update, which arrives at the session's
\* AcpClient as a ToolCallProgress
AdapterToolResult(block) ==
    /\ bePrompt = "running"
    /\ connection
    /\ nUpdates < MaxToolUpdates
    /\ tool_results' = Append(tool_results, block)
    /\ UNCHANGED <<query, permission_reply>>
    /\ handlerQ' = Append(handlerQ,
            ToolProgress(block.tool_use_id, ToolResultStatus(block)))
    /\ nUpdates' = nUpdates + 1
    /\ UNCHANGED <<clientVars, ownedVars, agentVars, stdioVars, callerVars, sessVars, srvVars, bePrompt,
                   wire, cancels, inbound, trace, signals, mgrVars>>

NextBridge ==
    \/ SendRequests
    \/ SendPath
    \/ \E id \in ToolIds, is_error \in BOOLEAN :
            AdapterToolResult(ToolResultBlock(id, is_error))
    \/ BackendAnswer("ok")
    \/ BackendAnswer("err")

SpecBridge == Init /\ [][NextBridge]_vars

(* =================== the full text of a prompt ======================== *)

\* the CPP client creates a session and sends it two prompts (one process is
\* a proxy server or a library user's, not both)
TextRequests ==
    /\ query.n = 0
    /\ \/ nRequests = 0 /\ CppRequest("create", NoModel)
       \/ nRequests \in {1, 2} /\ CppRequest("send", NoModel)

\* the backend streams a text chunk
BackendText(t) ==
    /\ nUpdates < MaxTextChunks
    /\ BackendUpdate(TextUpdate(t))

\* the text chunks a backend streams, an empty one among them
TextChunks == {<<>>, He, Hello, <<"l">>}

(* ClaudeClient's EventHandler.session_update, AgentMessageChunk: the       *)
(* buffer after the chunk, and what on_text is called with                 *)
QueryBufferAfter(buf, t) ==
    IF t = <<>> THEN buf
    ELSE IF Len(buf) = 0 THEN t
    ELSE IF t = buf THEN buf
    ELSE IF StartsWith(t, buf) THEN t
    ELSE buf \o t
QueryEmitted(buf, t) ==
    IF t = <<>> THEN <<>>
    ELSE IF Len(buf) = 0 THEN <<t>>
    ELSE IF t = buf THEN <<>>
    ELSE IF StartsWith(t, buf) THEN <<SubSeq(t, Len(buf) + 1, Len(t))>>
    ELSE <<t>>

(* ClaudeClient.query up to agent.prompt: the buffer is reset *)
QueryStart ==
    /\ nRequests = 0
    /\ query.at = "idle"
    /\ query.n < MaxRequests
    /\ query' = Query("running", query.n + 1, <<>>, <<>>, query.returned)
    /\ UNCHANGED <<stubVars, agentVars, stdioVars, mgrVars, tool_results, permission_reply>>

\* the in-process agent calls session_update with a text chunk
QueryChunk(t) ==
    /\ query.at = "running"
    /\ Len(query.deltas) < MaxChunks
    /\ query' = [query EXCEPT
            !.text_buffer = QueryBufferAfter(@, t),
            !.deltas = @ \o QueryEmitted(query.text_buffer, t)]
    /\ UNCHANGED <<stubVars, agentVars, stdioVars, mgrVars, tool_results, permission_reply>>

\* agent.prompt has returned: query returns the buffer
QueryReturn ==
    /\ query.at = "running"
    /\ query' = [query EXCEPT !.at = "idle", !.returned = query.text_buffer]
    /\ UNCHANGED <<stubVars, agentVars, stdioVars, mgrVars, tool_results, permission_reply>>

NextText ==
    \/ TextRequests
    \/ SendPath
    \/ \E t \in TextChunks : BackendText(t)
    \/ BackendAnswer("ok")
    \/ BackendAnswer("err")
    \/ QueryStart
    \/ \E t \in TextChunks : QueryChunk(t)
    \/ QueryReturn

SpecText == Init /\ [][NextText]_vars

(* ================ permission requests in proxy mode =================== *)

\* the option ids a backend offers with session/request_permission
OfferedOptions ==
    {<<"allow", "deny">>, <<"allow_once", "allow_always", "reject_once">>,
     <<"reject_once">>, <<>>}

\* a handler that refuses
Refuse(name, options) == "deny"

(* the on_permission handler of _setup_backend_handlers *)
on_permission(name, options) == "allow"

(* ClientHandler.request_permission with on_permission registered: the    *)
(* backend asks while it works on a prompt, and is answered; nothing is    *)
(* written to the CPP client                                               *)
request_permission(options) ==
    /\ bePrompt = "running"
    /\ connection
    /\ permission_reply' =
            PermissionReply(options, "selected", on_permission("tool", options))
    /\ UNCHANGED <<stubVars, agentVars, stdioVars, mgrVars, tool_results, query>>

NextProxyPermission ==
    \/ SendRequests
    \/ SendPath
    \/ \E options \in OfferedOptions : request_permission(options)
    \/ \E id \in ToolIds : nUpdates < MaxUpdates /\ BackendUpdate(ToolStart(id))
    \/ BackendAnswer("ok")
    \/ BackendAnswer("err")

SpecProxyPermission == Init /\ [][NextProxyPermission]_vars

(* ------------- a second task calling while connect is suspended ------ *)

\* prompt's own steps after its session exists: the buffer is reset and the
\* prompt request sent
SecondSendsPrompt ==
    /\ text_buffer' = <<>>
    /\ bePrompt' = "running"
    /\ pc2' = "prompt_wait"

\* while connect awaits the initialize response another task calls new_session
SecondNewSession ==
    /\ pc = "connect_init"
    /\ pc2 = "idle"
    /\ handler = NoReq
    /\ nCalls < MaxCalls
    /\ nCalls' = nCalls + 1
    /\ IF ~connection
       THEN UNCHANGED <<trace, pc2, mgrVars, sdkVars>>
       ELSE /\ trace' = Append(trace, Entry("new_session", "-"))
            /\ pc2' = "new_wait"
    /\ UNCHANGED <<clientVars, ownedVars, agentVars, stdioVars, handlerQ, pc, lastCall, proxyVars, signals, mgrVars, sdkVars>>

\* while connect awaits the initialize response another task calls prompt
SecondPrompt ==
    /\ pc = "connect_init"
    /\ pc2 = "idle"
    /\ handler = NoReq
    /\ nCalls < MaxCalls
    /\ nCalls' = nCalls + 1
    /\ IF ~connection
       THEN UNCHANGED <<trace, pc2, text_buffer, bePrompt, mgrVars, sdkVars>>
       ELSE IF session_id = 0
       THEN /\ trace' = Append(trace, Entry("new_session", "-"))
            /\ pc2' = "p_new_wait"
            /\ UNCHANGED <<text_buffer, bePrompt, mgrVars, sdkVars>>
       ELSE /\ trace' = Append(trace, Entry("prompt", "-"))
            /\ SecondSendsPrompt
    /\ UNCHANGED <<process, connection, initialized, session_id, pending_model,
                   terminals, terminal_counter, ownedVars, agentVars, stdioVars, handlerQ, pc, lastCall,
                   sessVars, srvVars, nUpdates, wire, cancels, inbound, signals, mgrVars, sdkVars>>

\* the second task's new_session is answered
SecondNewSessionOk ==
    /\ pc2 \in {"new_wait", "p_new_wait"}
    /\ connection
    /\ session_id' = FreshSessionId
    /\ IF pending_model # NoModel
       THEN /\ trace' = trace \o <<Entry("new_session_ok", "-"),
                                   Entry("set_session_model", pending_model)>>
            /\ pc2' = (IF pc2 = "new_wait" THEN "model_wait" ELSE "p_model_wait")
            /\ UNCHANGED <<text_buffer, bePrompt, mgrVars, sdkVars>>
       ELSE IF pc2 = "new_wait"
       THEN /\ trace' = Append(trace, Entry("new_session_ok", "-"))
            /\ pc2' = "idle"
            /\ UNCHANGED <<text_buffer, bePrompt, mgrVars, sdkVars>>
       ELSE /\ trace' = trace \o <<Entry("new_session_ok", "-"), Entry("prompt", "-")>>
            /\ SecondSendsPrompt
    /\ UNCHANGED <<process, connection, initialized, pending_model, terminals,
                   terminal_counter, ownedVars, agentVars, stdioVars, handlerQ, pc, lastCall, nCalls,
                   sessVars, srvVars, nUpdates, wire, cancels, inbound, signals, mgrVars, sdkVars>>

\* the second task's new_session fails: the exception leaves its call
SecondNewSessionFail ==
    /\ pc2 \in {"new_wait", "p_new_wait"}
    /\ pc2' = "idle"
    /\ UNCHANGED <<clientVars, ownedVars, agentVars, stdioVars, handlerQ, pc, lastCall, nCalls, proxyVars,
                   trace, signals, mgrVars, sdkVars>>

\* the second task's set_session_model is answered, with a result or an error
SecondModelApplied ==
    /\ pc2 \in {"model_wait", "p_model_wait"}
    /\ ClearPending
    /\ IF pc2 = "model_wait"
       THEN /\ pc2' = "idle"
            /\ UNCHANGED <<text_buffer, bePrompt, trace, mgrVars, sdkVars>>
       ELSE /\ trace' = Append(trace, Entry("prompt", "-"))
            /\ SecondSendsPrompt
    /\ UNCHANGED <<process, connection, initialized, session_id, terminals,
                   terminal_counter, ownedVars, agentVars, stdioVars, handlerQ, pc, lastCall, nCalls,
                   sessVars, srvVars, nUpdates, wire, cancels, inbound, signals, mgrVars, sdkVars>>

\* the second task's prompt is answered, with a result or an error; no
\* on_complete and no on_error is registered on a directly used client
SecondPromptAnswered ==
    /\ pc2 = "prompt_wait"
    /\ bePrompt = "running"
    /\ bePrompt' = "idle"
    /\ pc2' = "idle"
    /\ UNCHANGED <<clientVars, ownedVars, agentVars, stdioVars, handlerQ, pc, lastCall, nCalls, sessVars,
                   srvVars, nUpdates, wire, cancels, inbound, trace, signals, mgrVars, sdkVars>>

NextTasks ==
    \/ NextClient
    \/ SecondNewSession
    \/ SecondPrompt
    \/ SecondNewSessionOk
    \/ SecondNewSessionFail
    \/ SecondModelApplied
    \/ SecondPromptAnswered

SpecTasks == Init /\ [][NextTasks]_vars

(* ---------------- ClaudeAcpAgent: sessions and their modes ------------ *)

\* the session ids a client may name: those of the sessions and one the
\* adapter never made
SessionIds == 1 .. (MaxSessions + 1)

\* the mode ids a client may send
ModeIds == {"default", "acceptEdits", "plan", "bypassPermissions", "dontAsk",
            "invalid_mode"}

\* every mode id passes the test
AnyModeId == ModeIds

\* valid_modes of set_session_mode
valid_modes == {"default", "acceptEdits", "plan", "bypassPermissions", "dontAsk"}

\* the working directories a client may name
Cwds == {"/tmp", "/home"}

\* Session(...) with the defaults of the dataclass
Session(cwd, mode) ==
    [cwd |-> cwd, permission_mode |-> mode, cancelled |-> FALSE,
     tool_use_cache |-> {}]

\* the prompt coroutine of a session: where it is, whether can_use_tool was
\* passed to the SDK, how many messages it has received, and (for the record)
\* whether a cancel arrived since it started
Turn(at, guarded, n, arrived) ==
    [at |-> at, guarded |-> guarded, n |-> n, arrived |-> arrived]
NoTurn == Turn("idle", FALSE, 0, FALSE)

\* str(uuid4()): an id no session has
NewSessionId == Len(sessions) + 1

(* Agent.on_connect *)
OnConnect ==
    /\ ~conn
    /\ conn' = TRUE
    /\ UNCHANGED <<stubVars, stdioVars, sessions, turn, emitted, permission, answered, mgrVars, sdkVars>>

\* a session is stored under a new id
StoreSession(cwd, mode) ==
    /\ sessions' = Append(sessions, Session(cwd, mode))
    /\ turn' = Append(turn, NoTurn)
    /\ emitted' = Append(emitted, {})

(* ClaudeAcpAgent.new_session *)
AgentNewSession(cwd) ==
    /\ conn
    /\ Len(sessions) < MaxSessions
    /\ StoreSession(cwd, "default")
    /\ answered' = Answer("new_session", NewSessionId, "ok")
    /\ UNCHANGED <<stubVars, stdioVars, conn, permission, mgrVars, sdkVars>>

\* the forked session starts in the default mode
DefaultMode(old_session) == "default"

\* the permission_mode given to the forked session
ForkedMode(old_session) == old_session.permission_mode

(* ClaudeAcpAgent.fork_session *)
AgentForkSession(cwd, sid) ==
    /\ conn
    /\ IF sid \notin DOMAIN sessions
       THEN /\ answered' = Answer("fork_session", sid, "ValueError")
            /\ UNCHANGED <<sessions, turn, emitted, mgrVars, sdkVars>>
       ELSE /\ Len(sessions) < MaxSessions
            /\ StoreSession(cwd, ForkedMode(sessions[sid]))
            /\ answered' = Answer("fork_session", NewSessionId, "ok")
    /\ UNCHANGED <<stubVars, stdioVars, conn, permission, mgrVars, sdkVars>>

(* ClaudeAcpAgent.set_session_mode *)
AgentSetSessionMode(sid, mode) ==
    /\ conn
    /\ IF sid \notin DOMAIN sessions \/ mode \notin valid_modes
       THEN /\ answered' = Answer("set_session_mode", sid, "ValueError")
            /\ UNCHANGED sessions
       ELSE /\ sessions' = [sessions EXCEPT ![sid].permission_mode = mode]
            /\ answered' = Answer("set_session_mode", sid, "ok")
    /\ UNCHANGED <<stubVars, stdioVars, conn, turn, emitted, permission, mgrVars, sdkVars>>

\* session.model: the Session dataclass has the fields session_id, cwd,
\* permission_mode, cancelled and tool_use_cache, so the read raises
ModelOf(session) ==
    IF "model" \in DOMAIN session THEN session.model ELSE "AttributeError"

(* ClaudeAcpAgent.set_session_model: the request is logged and answered *)
AgentSetSessionModel(sid, model_id) ==
    /\ conn
    /\ answered' = [op |-> "set_session_model", sid |-> sid, out |-> "ok",
                    model_id |-> model_id]
    /\ UNCHANGED <<stubVars, stdioVars, conn, sessions, turn, emitted, permission, mgrVars, sdkVars>>

\* the adapter serving session and mode requests
NextModes ==
    \/ OnConnect
    \/ \E cwd \in Cwds : AgentNewSession(cwd)
    \/ \E cwd \in Cwds, sid \in SessionIds : AgentForkSession(cwd, sid)
    \/ \E sid \in SessionIds, mode \in ModeIds : AgentSetSessionMode(sid, mode)
    \/ \E sid \in SessionIds, model_id \in Models :
           AgentSetSessionModel(sid, model_id)

SpecModes == Init /\ [][NextModes]_vars

(* ---------------- ClaudeAcpAgent.prompt and cancel -------------------- *)

\* what the SDK client yields in receive_response: an AssistantMessage with a
\* text, tool-use or tool-result block, or the closing ResultMessage
SdkMessages ==
    {[m |-> "text", id |-> "-"], [m |-> "result", id |-> "-"]}
        \cup {[m |-> k, id |-> id] : k \in {"tool_use", "tool_result"}, id \in ToolIds}

\* the session update _handle_assistant_message sends for a block
UpdateFor(msg) ==
    IF msg.m = "text" THEN [u |-> "agent_message", id |-> "-"]
    ELSE IF msg.m = "tool_use" THEN [u |-> "tool_call", id |-> msg.id]
    ELSE [u |-> "tool_call_update", id |-> msg.id]

\* the cache after _handle_assistant_message: a tool-use block is recorded,
\* no block removes anything
CacheAfter(cache, msg) == IF msg.m = "tool_use" THEN cache \cup {msg.id} ELSE cache

\* prompt up to its first await: an unknown session raises ValueError, else
\* the flag is reset and the SDK client opened, with can_use_tool unless the
\* session bypasses permissions
AgentPromptStart(sid) ==
    /\ conn
    /\ IF sid \notin DOMAIN sessions
       THEN /\ answered' = Answer("prompt", sid, "ValueError")
            /\ UNCHANGED <<sessions, turn, mgrVars, sdkVars>>
       ELSE /\ turn[sid].at = "idle"
            /\ sessions' = [sessions EXCEPT ![sid].cancelled = FALSE]
            /\ turn' = [turn EXCEPT ![sid] =
                   Turn("stream", sessions[sid].permission_mode # "bypassPermissions",
                        0, FALSE)]
            /\ UNCHANGED answered
    /\ UNCHANGED <<stubVars, stdioVars, conn, emitted, permission, mgrVars, sdkVars>>

\* receive_response yields a message: a set flag ends the loop with
\* "cancelled"; else the message is handled, and the ResultMessage ends the
\* stream
AgentMessage(sid, msg) ==
    /\ sid \in DOMAIN sessions
    /\ turn[sid].at = "stream"
    /\ msg.m # "result" => turn[sid].n < MaxMessages
    /\ IF sessions[sid].cancelled
       THEN /\ turn' = [turn EXCEPT ![sid].at = "interrupt"]
            /\ UNCHANGED <<sessions, emitted, mgrVars, sdkVars>>
       ELSE IF msg.m = "result"
       THEN /\ turn' = [turn EXCEPT ![sid].at = "exit"]
            /\ UNCHANGED <<sessions, emitted, mgrVars, sdkVars>>
       ELSE /\ sessions' = [sessions EXCEPT ![sid].tool_use_cache =
                                CacheAfter(@, msg)]
            /\ emitted' = [emitted EXCEPT ![sid] = @ \cup {UpdateFor(msg)}]
            /\ turn' = [turn EXCEPT ![sid].n = @ + 1]
    /\ UNCHANGED <<stubVars, stdioVars, conn, permission, answered, mgrVars, sdkVars>>

\* the SDK client is closed and prompt returns: "cancelled" after the
\* interrupt, "end_turn" after the end of the stream
AgentPromptReturn(sid) ==
    /\ sid \in DOMAIN sessions
    /\ turn[sid].at \in {"interrupt", "exit"}
    /\ answered' = Answer("prompt", sid,
                          IF turn[sid].at = "interrupt" THEN "cancelled" ELSE "end_turn")
    /\ turn' = [turn EXCEPT ![sid].at = "idle"]
    /\ UNCHANGED <<stubVars, stdioVars, conn, sessions, emitted, permission, mgrVars, sdkVars>>

\* the SDK client fails: the exception is logged and raised again
AgentPromptError(sid) ==
    /\ sid \in DOMAIN sessions
    /\ turn[sid].at = "stream"
    /\ answered' = Answer("prompt", sid, "Exception")
    /\ turn' = [turn EXCEPT ![sid].at = "idle"]
    /\ UNCHANGED <<stubVars, stdioVars, conn, sessions, emitted, permission, mgrVars, sdkVars>>

(* ClaudeAcpAgent.cancel *)
AgentCancel(sid) ==
    /\ conn
    /\ IF sid \in DOMAIN sessions
       THEN /\ sessions' = [sessions EXCEPT ![sid].cancelled = TRUE]
            /\ turn' = [turn EXCEPT ![sid].arrived = @ \/ turn[sid].at # "idle"]
       ELSE UNCHANGED <<sessions, turn, mgrVars, sdkVars>>
    /\ UNCHANGED <<stubVars, stdioVars, conn, emitted, permission, answered, mgrVars, sdkVars>>

\* the adapter serving prompts and cancel notifications
NextAgent ==
    \/ OnConnect
    \/ AgentNewSession("/tmp")
    \/ \E sid \in SessionIds : AgentPromptStart(sid)
    \/ \E sid \in SessionIds, msg \in SdkMessages : AgentMessage(sid, msg)
    \/ \E sid \in SessionIds : AgentPromptReturn(sid)
    \/ \E sid \in SessionIds : AgentPromptError(sid)
    \/ \E sid \in SessionIds : AgentCancel(sid)

SpecAgent == Init /\ [][NextAgent]_vars

(* ---------------- ClaudeAcpAgent._create_permission_handler ----------- *)

\* the tools the SDK may ask permission for
Tools == {"Write", "Edit", "MultiEdit", "Bash"}

\* acceptEdits lets every tool through
AnyTool == Tools

\* the tools acceptEdits lets through
EditTools == {"Write", "Edit", "MultiEdit"}

\* the option ids of the PermissionOptions, in the order they are sent
PermissionOptions == <<"allow_always", "allow", "reject">>

\* what the client answers: response["outcome"] with its outcome and option_id
\* ("-" for a missing key)
ClientAnswers ==
    {[outcome |-> "selected", option_id |-> o] : o \in {"allow_always", "allow", "reject"}}
        \cup {[outcome |-> "cancelled", option_id |-> "allow"],
              [outcome |-> "-", option_id |-> "-"]}

\* the handler returns PermissionResultAllow without asking
AutoAllowed(mode, tool) ==
    \/ mode = "bypassPermissions"
    \/ mode = "acceptEdits" /\ tool \in EditTools

\* the answer makes the handler return PermissionResultAllow
Granted(answer) ==
    answer.outcome = "selected" /\ answer.option_id \in {"allow", "allow_always"}

\* can_use_tool up to its await, called by the SDK during a prompt that was
\* given the handler
CanUseTool(sid, tool) ==
    /\ sid \in DOMAIN sessions
    /\ turn[sid].at = "stream"
    /\ turn[sid].guarded
    /\ permission.result # "pending"
    /\ permission' =
          IF ~conn
          THEN Permission(sid, tool, FALSE, <<>>, NoAnswer, "deny", "No ACP connection")
          ELSE IF AutoAllowed(sessions[sid].permission_mode, tool)
          THEN Permission(sid, tool, FALSE, <<>>, NoAnswer, "allow", "-")
          ELSE Permission(sid, tool, TRUE, PermissionOptions, NoAnswer, "pending", "-")
    /\ UNCHANGED <<stubVars, stdioVars, conn, sessions, turn, emitted, answered, mgrVars, sdkVars>>

\* the client's response to session/request_permission arrives
PermissionAnswer(answer) ==
    /\ permission.result = "pending"
    /\ permission' =
          [permission EXCEPT
              !.answer = answer,
              !.result = IF Granted(answer) THEN "allow" ELSE "deny",
              !.message = IF Granted(answer) THEN "-" ELSE "User denied permission"]
    /\ UNCHANGED <<stubVars, stdioVars, conn, sessions, turn, emitted, answered, mgrVars, sdkVars>>

\* session/request_permission fails: the exception leaves the handler
PermissionRaises ==
    /\ permission.result = "pending"
    /\ permission' = [permission EXCEPT !.result = "raised"]
    /\ UNCHANGED <<stubVars, stdioVars, conn, sessions, turn, emitted, answered, mgrVars, sdkVars>>

\* one session whose mode the client changes while the SDK asks for
\* permissions in its prompts
NextPermission ==
    \/ OnConnect
    \/ sessions = <<>> /\ AgentNewSession("/tmp")
    \/ \E sid \in SessionIds, mode \in valid_modes : AgentSetSessionMode(sid, mode)
    \/ \E sid \in SessionIds : AgentPromptStart(sid)
    \/ \E sid \in SessionIds, tool \in Tools : CanUseTool(sid, tool)
    \/ \E sid \in SessionIds : AgentMessage(sid, [m |-> "result", id |-> "-"])
    \/ \E sid \in SessionIds : AgentPromptReturn(sid)
    \/ \E answer \in ClientAnswers : PermissionAnswer(answer)
    \/ PermissionRaises

SpecPermission == Init /\ [][NextPermission]_vars

(* ------------------- the CPP transport: text and JSON ----------------- *)

\* Text is a sequence of characters and a stream a sequence of bytes. An
\* ASCII character and its byte are the same one-character string; "E9" is
\* the character U+00E9, whose UTF-8 encoding is the two bytes "C3", "A9";
\* "FF" is a byte that no UTF-8 text contains.

CRLF == <<"\r", "\n">>
Whitespace == {" ", "\t", "\r", "\n"}
Digits == <<"0", "1", "2", "3", "4", "5", "6", "7", "8", "9">>

\* str(n) of a natural number
RECURSIVE Str(_)
Str(n) == IF n < 10 THEN <<Digits[n + 1]>>
          ELSE Str(n \div 10) \o <<Digits[(n % 10) + 1]>>

IsDigit(c) == \E i \in 1..10 : Digits[i] = c
DigitValue(c) == (CHOOSE i \in 1..10 : Digits[i] = c) - 1

RECURSIVE Value(_)
Value(ds) == IF ds = <<>> THEN 0
             ELSE 10 * Value(SubSeq(ds, 1, Len(ds) - 1)) + DigitValue(ds[Len(ds)])

\* s.strip()
Strip(s) ==
    LET keep == {i \in 1..Len(s) : s[i] \notin Whitespace}
    IN IF keep = {} THEN <<>>
       ELSE SubSeq(s, CHOOSE i \in keep : \A j \in keep : i <= j,
                      CHOOSE i \in keep : \A j \in keep : i >= j)

\* s.split(":")[1]
SecondField(s) ==
    LET colons == {i \in 1..Len(s) : s[i] = ":"}
        first == CHOOSE i \in colons : \A j \in colons : i <= j
        later == {i \in colons : i > first}
        stop == IF later = {} THEN Len(s) + 1
                ELSE CHOOSE i \in later : \A j \in later : i <= j
    IN SubSeq(s, first + 1, stop - 1)

\* int(text): an optional sign and decimal digits, or ValueError
ParseInt(text) ==
    LET t == Strip(text)
        signed == t # <<>> /\ t[1] \in {"-", "+"}
        ds == IF signed THEN Tail(t) ELSE t
    IN IF ds = <<>> \/ \E i \in 1..Len(ds) : ~IsDigit(ds[i])
       THEN [ok |-> FALSE, n |-> 0]
       ELSE [ok |-> TRUE,
             n |-> IF signed /\ t[1] = "-" THEN 0 - Value(ds) ELSE Value(ds)]

\* the pieces of a text, one after the other
RECURSIVE Join(_)
Join(pieces) ==
    IF Len(pieces) = 0 THEN <<>>
    ELSE IF Len(pieces) = 1 THEN pieces[1]
    ELSE LET half == Len(pieces) \div 2
         IN Join(SubSeq(pieces, 1, half))
               \o Join(SubSeq(pieces, half + 1, Len(pieces)))

\* text.encode("utf-8")
Utf8Encode(text) ==
    Join([i \in 1..Len(text) |->
             IF text[i] = "E9" THEN <<"C3", "A9">> ELSE <<text[i]>>])

\* the bytes are the UTF-8 encoding of some text
Utf8Valid(bytes) ==
    \A i \in 1..Len(bytes) :
        /\ bytes[i] # "FF"
        /\ bytes[i] = "C3" => (i < Len(bytes) /\ bytes[i + 1] = "A9")
        /\ bytes[i] = "A9" => (i > 1 /\ bytes[i - 1] = "C3")

\* bytes.decode("utf-8") of valid bytes
Utf8Decode(bytes) ==
    Join([i \in 1..Len(bytes) |->
             IF bytes[i] = "C3" THEN <<"E9">>
             ELSE IF bytes[i] = "A9" THEN <<>> ELSE <<bytes[i]>>])

\* a JSON value of a message: a missing key, null, a number given by its
\* digits, a string, the object {"message": string} or the empty object
Absent == [t |-> "absent", v |-> <<>>]
Null == [t |-> "null", v |-> <<>>]
Number(ds) == [t |-> "int", v |-> ds]
String(cs) == [t |-> "str", v |-> cs]
Object(cs) == [t |-> "object", v |-> cs]
EmptyObject == [t |-> "empty", v |-> <<>>]

NoError == [code |-> 0, message |-> <<>>]

\* a JSON-RPC message, as the dict json.loads returns or json.dumps is given
Message(id, method, params, result, error) ==
    [id |-> id, method |-> method, params |-> params, result |-> result,
     error |-> error]

\* a string in JSON text; with ensure_ascii a non-ASCII character is escaped
JsonString(cs, ensure_ascii) ==
    LET Esc(c) == IF c = "E9" /\ ensure_ascii
                  THEN <<"\\", "u", "0", "0", "e", "9">> ELSE <<c>>
    IN <<"\"">> \o Join([i \in 1..Len(cs) |-> Esc(cs[i])]) \o <<"\"">>

JsonValue(v, ensure_ascii) ==
    CASE v.t = "null" -> <<"n", "u", "l", "l">>
      [] v.t = "int" -> v.v
      [] v.t = "str" -> JsonString(v.v, ensure_ascii)
      [] v.t = "object" -> <<"{", "\"", "m", "e", "s", "s", "a", "g", "e", "\"", ":">>
                             \o JsonString(v.v, ensure_ascii) \o <<"}">>
      [] v.t = "empty" -> <<"{", "}">>

\* one member of the top-level object, nothing for a missing key
Member(key, v, ensure_ascii) ==
    IF v.t = "absent" THEN <<>> ELSE key \o JsonValue(v, ensure_ascii)

ErrorMember(error, ensure_ascii) ==
    IF error = NoError THEN <<>>
    ELSE <<",", "\"", "e", "r", "r", "o", "r", "\"", ":", "{", "\"", "c", "o",
      "d", "e", "\"", ":">>
         \o <<"-">> \o Str(0 - error.code)
         \o <<",", "\"", "m", "e", "s", "s", "a", "g", "e", "\"", ":">>
         \o JsonString(error.message, ensure_ascii) \o <<"}">>

\* the JSON text of a message with separators (",", ":") and the keys in the
\* order the dicts are built in
JsonText(m, ensure_ascii) ==
    <<"{", "\"", "j", "s", "o", "n", "r", "p", "c", "\"", ":", "\"", "2",
      ".", "0", "\"">>
    \o Member(<<",", "\"", "i", "d", "\"", ":">>, m.id, ensure_ascii)
    \o Member(<<",", "\"", "m", "e", "t", "h", "o", "d", "\"", ":">>,
              m.method, ensure_ascii)
    \o Member(<<",", "\"", "p", "a", "r", "a", "m", "s", "\"", ":">>,
              m.params, ensure_ascii)
    \o Member(<<",", "\"", "r", "e", "s", "u", "l", "t", "\"", ":">>,
              m.result, ensure_ascii)
    \o ErrorMember(m.error, ensure_ascii)
    \o <<"}">>

\* json.dumps(message, separators=(",", ":"))
Dumps(m) == JsonText(m, TRUE)

(* ------------------ the CPP transport: messages and frames ------------ *)

IntOne == Number(<<"1">>)
StrOne == String(<<"1">>)

Ping == <<"p", "i", "n", "g">>
SessionSend == <<"s", "e", "s", "s", "i", "o", "n", ".", "s", "e", "n", "d">>
SessionEvent == <<"s", "e", "s", "s", "i", "o", "n", ".", "e", "v", "e", "n", "t">>
Foo == <<"f", "o", "o">>
Pong == <<"p", "o", "n", "g">>

Request(id, method, params) == Message(id, String(method), params, Absent, NoError)

\* _send_result: the response dict
SendResult(msg_id, result) == Message(msg_id, Absent, Absent, result, NoError)

\* _send_error: the response dict; a msg_id of None is written as null
SendError(msg_id, code, message) ==
    Message(IF msg_id = Absent THEN Null ELSE msg_id, Absent, Absent, Absent,
            [code |-> code, message |-> message])

\* _send_notification
SendNotification(method, params) == Request(Absent, method, params)

\* the messages a CPP client sends: requests with an integer or a string id
\* and notifications, for ping (with and without a message to echo), for
\* session.send without a sessionId, for a method the server does not have,
\* and responses to requests the server never made
InMessages ==
    {Request(id, Ping, Absent) : id \in {IntOne, StrOne, Absent}}
    \cup {Request(IntOne, Ping, Object(<<"E9">>))}
    \cup {Request(id, SessionSend, EmptyObject) : id \in {IntOne, Absent}}
    \cup {Request(id, Foo, Absent) : id \in {StrOne, Absent}}
    \cup {SendResult(IntOne, EmptyObject),
          SendError(StrOne, -32603, Foo)}

\* every message is taken to have an id
IdAlwaysThere(m) == FALSE

\* message.get("id") is None
NoId(m) == m.id.t \in {"absent", "null"}

\* message.get("method", "")
MethodOf(m) == IF m.method.t = "str" THEN m.method.v ELSE <<>>

\* message.get("params", {})
ParamsOf(m) == IF m.params.t = "absent" THEN EmptyObject ELSE m.params

\* _get_handler(method), for the methods of the messages above
Handlers == {Ping, SessionSend}

\* what the handler of a known method does with the params: _handle_ping
\* returns the message of the params or "pong" (its timestamp and
\* protocolVersion members are left out); _handle_session_send raises when
\* the params have no sessionId
Handle(method, params) ==
    IF method = Ping
    THEN [raised |-> FALSE,
          result |-> Object(IF params.t = "object" /\ params.v # <<>>
                            THEN params.v ELSE Pong),
          message |-> <<>>]
    ELSE [raised |-> TRUE, result |-> Absent,
          message |-> <<"s", "e", "s", "s", "i", "o", "n", "I", "d", " ", "i", "s", " ", "r",
      "e", "q", "u", "i", "r", "e", "d">>]

\* _handle_message: the responses it sends for a message, in order
Responses(message) ==
    LET msg_id == message.id
        method == MethodOf(message)
        done == Handle(method, ParamsOf(message))
    IN IF method \notin Handlers
       THEN IF NoId(message) THEN <<>>
            ELSE <<SendError(msg_id, -32601,
                       <<"M", "e", "t", "h", "o", "d", " ", "n", "o", "t", " ", "f", "o", "u",
      "n", "d", ":", " ">>
                       \o method)>>
       ELSE IF NoId(message) THEN <<>>
            ELSE IF done.raised THEN <<SendError(msg_id, -32603, done.message)>>
            ELSE <<SendResult(msg_id, done.result)>>

ParseError == SendError(Absent, -32700, <<"P", "a", "r", "s", "e", " ", "e", "r", "r", "o", "r">>)

\* a session.event notification of some session
EventNotification == SendNotification(SessionEvent, EmptyObject)

\* the messages the server sends
OutMessages ==
    {Responses(m)[1] : m \in {x \in InMessages : Responses(x) # <<>>}}
    \cup {ParseError, EventNotification}

JsonMessages == InMessages \cup OutMessages

\* json.loads(content): the dict, or JSONDecodeError; the texts that occur
\* are the JSON texts of the messages above, with non-ASCII characters
\* escaped or not, and texts that are no JSON
JsonTexts == [m \in JsonMessages |-> {JsonText(m, TRUE), JsonText(m, FALSE)}]
Loads(content) ==
    LET said == {m \in JsonMessages : content \in JsonTexts[m]}
    IN IF said = {} THEN [ok |-> FALSE, message |-> ParseError]
       ELSE [ok |-> TRUE, message |-> CHOOSE m \in said : TRUE]

ContentLength == <<"C", "o", "n", "t", "e", "n", "t", "-", "L", "e", "n", "g", "t", "h",
      ":">>
ContentType == <<"C", "o", "n", "t", "e", "n", "t", "-", "T", "y", "p", "e", ":", " ",
      "x">>

\* the header line alone, with no blank line after it
HeaderLineOnly(content_bytes) ==
    ContentLength \o <<" ">> \o Str(Len(content_bytes)) \o CRLF

\* the header _send_message writes for a payload
Header(content_bytes) ==
    ContentLength \o <<" ">> \o Str(Len(content_bytes)) \o CRLF \o CRLF

\* the payload _send_message writes for a message
Payload(message) == Utf8Encode(Dumps(message))

\* the frames a CPP client may write for a message: as _send_message writes
\* it, with raw UTF-8 text, with another header line before or after the
\* Content-Length line, with no Content-Length line, with a Content-Length
\* that is no number, with Content-Length: 0 and no body, with a body that is
\* the first half of the JSON text, and with a body that is no UTF-8
FrameKinds == {"plain", "raw", "header_before", "header_after", "no_length",
              "bad_length", "zero", "bad_json", "bad_utf8"}

FrameBytes(kind, message) ==
    LET body == Payload(message)
        half == SubSeq(body, 1, Len(body) \div 2)
        raw == Utf8Encode(JsonText(message, FALSE))
        LengthLine(n) == ContentLength \o <<" ">> \o Str(n) \o CRLF
        other == ContentType \o CRLF
    IN CASE kind = "plain" -> Header(body) \o body
         [] kind = "raw" -> Header(raw) \o raw
         [] kind = "header_before" ->
                other \o LengthLine(Len(body)) \o CRLF \o body
         [] kind = "header_after" ->
                LengthLine(Len(body)) \o other \o CRLF \o body
         [] kind = "no_length" -> other \o CRLF \o body
         [] kind = "bad_length" ->
                ContentLength \o <<" ", "x">> \o CRLF \o CRLF \o body
         [] kind = "zero" -> LengthLine(0) \o CRLF
         [] kind = "bad_json" -> Header(half) \o half
         [] kind = "bad_utf8" -> Header(<<"FF">>) \o <<"FF">>

\* the frames, computed once
Frames == [kind \in FrameKinds, message \in JsonMessages |->
              FrameBytes(kind, message)]

\* the payloads, computed once
Payloads == [message \in OutMessages |-> Payload(message)]

\* StreamReader.readline: the bytes up to and including the first newline,
\* or all the bytes left when the stream has ended
ReadLine(stream) ==
    LET ends == {i \in 1..Len(stream) : stream[i] = "\n"}
        n == IF ends = {} THEN Len(stream)
             ELSE CHOOSE i \in ends : \A j \in ends : i <= j
    IN [line |-> SubSeq(stream, 1, n),
        rest |-> SubSeq(stream, n + 1, Len(stream))]

(* --------------- AcpProxyServer: the reader and the senders ----------- *)

\* a task may be suspended anywhere
SuspendsAnywhere(at) == TRUE

\* the places at which a task is suspended in an await: the three reads of
\* _process_messages, drain() in _send_message, and a task with nothing to do
Suspends(at) == at \in {"idle", "header", "separator", "body", "drain", "stopped"}

\* no other task is running, so the event loop may run this one
MayRun(task) == \A other \in DOMAIN tasks \ {task} : Suspends(tasks[other].at)

\* what reading one frame came to
Decoded(ok, message, error) == [ok |-> ok, message |-> message, error |-> error]

\* the CPP client writes a frame to the server's stdin
CppWrite(kind, message) ==
    /\ ~input_eof
    /\ Len(written) < MaxFrames
    /\ input_stream' = input_stream \o Frames[kind, message]
    /\ written' = Append(written, [kind |-> kind, message |-> message])
    /\ UNCHANGED <<stubVars, agentVars, input_eof, tasks, content_length, decoded,
                   output_stream, sent, mgrVars, sdkVars>>

\* the CPP client closes the server's stdin
CppClose ==
    /\ ~input_eof
    /\ input_eof' = TRUE
    /\ UNCHANGED <<stubVars, agentVars, input_stream, written, tasks, content_length,
                   decoded, output_stream, sent, mgrVars, sdkVars>>

\* readline() can return: a whole line is there, or the stream has ended
LineReady == input_eof \/ \E i \in 1..Len(input_stream) : input_stream[i] = "\n"

\* _process_messages: the header line is read; the loop goes on with the
\* next line unless the line carries a Content-Length that int() accepts
ReadHeader ==
    /\ tasks["reader"].at = "header"
    /\ MayRun("reader")
    /\ LineReady
    /\ LET read == ReadLine(input_stream)
           header == IF Utf8Valid(read.line)
                     THEN Strip(Utf8Decode(read.line)) ELSE <<>>
           n == IF StartsWith(header, ContentLength)
                THEN ParseInt(SecondField(header)) ELSE [ok |-> FALSE, n |-> 0]
       IN /\ input_stream' = read.rest
          /\ IF read.line = <<>>
             THEN /\ tasks' = [tasks EXCEPT !["reader"].at = "stopped"]
                  /\ UNCHANGED content_length
             ELSE IF n.ok
             THEN /\ tasks' = [tasks EXCEPT !["reader"].at = "separator"]
                  /\ content_length' = n.n
             ELSE UNCHANGED <<tasks, content_length, mgrVars, sdkVars>>
    /\ UNCHANGED <<stubVars, agentVars, input_eof, written, decoded, output_stream, sent, mgrVars, sdkVars>>

\* _process_messages: the line after the header line is read and dropped
ReadSeparator ==
    /\ tasks["reader"].at = "separator"
    /\ MayRun("reader")
    /\ LineReady
    /\ input_stream' = ReadLine(input_stream).rest
    /\ tasks' = [tasks EXCEPT !["reader"].at = "body"]
    /\ UNCHANGED <<stubVars, agentVars, input_eof, written, content_length, decoded,
                   output_stream, sent, mgrVars, sdkVars>>

\* _process_messages: _read_exact returns content_length bytes, or raises
\* EOFError when the stream ends before; the bytes are decoded and parsed and
\* the message is handled. JSONDecodeError is answered with a parse error;
\* EOFError and UnicodeDecodeError are logged by the outer except clause.
ReadBody ==
    /\ tasks["reader"].at = "body"
    /\ MayRun("reader")
    /\ input_eof \/ Len(input_stream) >= content_length
    /\ LET n == IF content_length > 0 THEN content_length ELSE 0
           short == Len(input_stream) < n
           content_bytes == SubSeq(input_stream, 1, n)
           parsed == Loads(Utf8Decode(content_bytes))
           frame == IF short THEN Decoded(FALSE, ParseError, "EOFError")
                    ELSE IF ~Utf8Valid(content_bytes)
                    THEN Decoded(FALSE, ParseError, "UnicodeDecodeError")
                    ELSE IF ~parsed.ok
                    THEN Decoded(FALSE, ParseError, "JSONDecodeError")
                    ELSE Decoded(TRUE, parsed.message, "")
           out == IF frame.ok THEN Responses(frame.message)
                  ELSE IF frame.error = "JSONDecodeError" THEN <<ParseError>>
                  ELSE <<>>
       IN /\ input_stream' = SubSeq(input_stream, n + 1, Len(input_stream))
          /\ decoded' = Append(decoded, frame)
          /\ tasks' = [tasks EXCEPT !["reader"] =
                          IF out = <<>> THEN Task("header", <<>>, 0)
                          ELSE Task("send", out, Len(decoded) + 1)]
    /\ UNCHANGED <<stubVars, agentVars, input_eof, written, content_length, output_stream,
                   sent, mgrVars, sdkVars>>

\* a session's event sink is called: a session.event notification is to be
\* sent by the task that handles the session update
EventRaised ==
    /\ tasks["notifier"].at = "idle"
    /\ MayRun("notifier")
    /\ Cardinality({i \in DOMAIN sent : sent[i].by = "notifier"}) < MaxEvents
    /\ tasks' = [tasks EXCEPT !["notifier"] = Task("send", <<EventNotification>>, 0)]
    /\ UNCHANGED <<stubVars, agentVars, input_stream, input_eof, written, content_length,
                   decoded, output_stream, sent, mgrVars, sdkVars>>

\* _send_message: the header is written
WriteHeader(task) ==
    /\ tasks[task].at = "send"
    /\ MayRun(task)
    /\ output_stream' = output_stream \o Header(Payloads[Head(tasks[task].out)])
    /\ sent' = Append(sent, [by |-> task, message |-> Head(tasks[task].out),
                             re |-> tasks[task].re])
    /\ tasks' = [tasks EXCEPT ![task].at = "payload"]
    /\ UNCHANGED <<stubVars, agentVars, input_stream, input_eof, written, content_length,
                   decoded, mgrVars, sdkVars>>

\* _send_message: the payload is written
WritePayload(task) ==
    /\ tasks[task].at = "payload"
    /\ MayRun(task)
    /\ output_stream' = output_stream \o Payloads[Head(tasks[task].out)]
    /\ tasks' = [tasks EXCEPT ![task].at = "drain"]
    /\ UNCHANGED <<stubVars, agentVars, input_stream, input_eof, written, content_length,
                   decoded, sent, mgrVars, sdkVars>>

\* _send_message: drain() returns, and the task goes back to what it was doing
Drained(task) ==
    /\ tasks[task].at = "drain"
    /\ MayRun(task)
    /\ tasks' = [tasks EXCEPT ![task] =
                    Task(IF task = "reader" THEN "header" ELSE "idle", <<>>, 0)]
    /\ UNCHANGED <<stubVars, agentVars, input_stream, input_eof, written, content_length,
                   decoded, output_stream, sent, mgrVars, sdkVars>>

\* the message of the frames with a defect
PingRequest == Request(IntOne, Ping, Absent)

\* the reader task: _process_messages, and _send_message for the responses
ReaderStep ==
    \/ ReadHeader
    \/ ReadSeparator
    \/ ReadBody
    \/ WriteHeader("reader")
    \/ WritePayload("reader")
    \/ Drained("reader")

\* the CPP client writes requests, notifications and responses
NextDispatch ==
    \/ \E m \in InMessages : CppWrite("plain", m)
    \/ CppWrite("raw", Request(IntOne, Ping, Object(<<"E9">>)))
    \/ ReaderStep

SpecDispatch == Init /\ [][NextDispatch]_vars

\* the CPP client writes frames with and without a defect and may close the
\* stream
NextFrames ==
    \/ \E kind \in FrameKinds \ {"raw"} : CppWrite(kind, PingRequest)
    \/ CppClose
    \/ ReaderStep

SpecFrames == Init /\ [][NextFrames]_vars

\* the server reads the frames that _send_message writes
NextRoundTrip ==
    \/ \E m \in OutMessages : CppWrite("plain", m)
    \/ ReaderStep

SpecRoundTrip == Init /\ [][NextRoundTrip]_vars

\* the requests that are answered
Answered == {Request(IntOne, Ping, Absent), Request(StrOne, Foo, Absent),
             Request(IntOne, SessionSend, EmptyObject)}

\* requests are answered while session events are sent
NextSenders ==
    \/ \E m \in Answered : CppWrite("plain", m)
    \/ ReadHeader
    \/ ReadSeparator
    \/ ReadBody
    \/ EventRaised
    \/ \E task \in {"reader", "notifier"} : WriteHeader(task)
    \/ \E task \in {"reader", "notifier"} : WritePayload(task)
    \/ \E task \in {"reader", "notifier"} : Drained(task)

SpecSenders == Init /\ [][NextSenders]_vars

(* ============== ProxySessionManager: several sessions, by id ============ *)
(* _process_messages awaits each handler before it reads the next frame,   *)
(* and stop runs when the loop has ended: a CPP request is handled whole   *)
(* before the next begins. What the backend does to a request (the spawn,  *)
(* initialize, session/new and session/prompt) is an input of the handler. *)

\* the sessions of _sessions
Known == DOMAIN manager_sessions

\* a lookup that never finds a session
NoSessionFound(sid) == FALSE

(* ProxySessionManager.get_session(sid) is not None *)
get_session(sid) == sid \in Known

(* AcpClient.connect: the spawn can fail, and initialize can fail after it *)
ConnectOutcomes == {"ok", "spawn_fails", "initialize_fails"}
Connected(outcome) ==
    CASE outcome = "spawn_fails" -> Backend("none", FALSE, FALSE, FALSE, NoModel, 0)
      [] outcome = "initialize_fails" ->
            Backend("running", TRUE, FALSE, FALSE, NoModel, 0)
      [] OTHER -> Backend("running", TRUE, TRUE, FALSE, NoModel, 0)

(* AcpClient.disconnect *)
Disconnected(b) ==
    [b EXCEPT !.terminals = 0,
              !.connection = FALSE,
              !.process = IF @ = "none" THEN "none" ELSE "terminated",
              !.initialized = FALSE,
              !.session_id = FALSE]

(* ProxySessionManager.create_session, then the rest of                    *)
(* _handle_session_create                                                  *)
CreateSession(method, sid, cwd, model, outcome) ==
    LET b == Len(backends) + 1
        id == IF sid = 0 THEN Uuid(b) ELSE sid
        client == Connected(outcome)
        session == ProxySession(b, cwd, "session.create")
    IN  IF outcome = "ok"
        THEN /\ backends' = Append(backends,
                     [client EXCEPT !.pending_model = model])
             /\ manager_sessions' = (id :> session) @@ manager_sessions
             /\ last_session_id' = id
             /\ handled' = Handled(method, sid,
                     <<SessionEv(id, "session.start", cwd)>>, FALSE,
                     FALSE, id, FALSE, {}, <<>>)
        ELSE /\ backends' = Append(backends, client)
             /\ UNCHANGED <<manager_sessions, last_session_id, sdkVars>>
             /\ handled' = Handled(method, sid, <<>>, FALSE,
                     TRUE, 0, FALSE, {}, <<>>)

\* the reader takes the next request
Serve ==
    /\ running
    /\ served < MaxServed
    /\ served' = served + 1
    /\ UNCHANGED <<running, stubVars, agentVars, stdioVars, sdkVars>>

(* _handle_session_create *)
HandleSessionCreate(sid, cwd, model, outcome) ==
    /\ Serve
    /\ CreateSession("session.create", sid, cwd, model, outcome)

(* _handle_session_resume *)
HandleSessionResume(sid, cwd, model, outcome) ==
    /\ Serve
    /\ IF sid = 0
       THEN /\ handled' = Handled("session.resume", sid, <<>>, FALSE,
                    TRUE, 0, FALSE, {}, <<>>)
            /\ UNCHANGED <<manager_sessions, last_session_id, backends, sdkVars>>
       ELSE IF get_session(sid)
       THEN /\ manager_sessions' =
                [manager_sessions EXCEPT ![sid].event_callback = "session.resume"]
            /\ handled' = Handled("session.resume", sid,
                    <<SessionEv(sid, "session.resume",
                                manager_sessions[sid].working_directory)>>,
                    FALSE, FALSE, sid, FALSE, {}, <<>>)
            /\ UNCHANGED <<last_session_id, backends, sdkVars>>
       ELSE CreateSession("session.resume", sid, cwd, model, outcome)

\* _sessions without the record of sid
Forgotten(sid) == [k \in Known \ {sid} |-> manager_sessions[k]]

(* ProxySessionManager.destroy_session: _sessions and the backend clients  *)
(* after it                                                                *)
Destroyed(sid) ==
    IF sid \in Known
    THEN [manager_sessions EXCEPT ![sid].is_active = FALSE]
    ELSE manager_sessions
BackendsAfterDestroy(sid) ==
    IF sid \in Known
    THEN [backends EXCEPT ![manager_sessions[sid].backend_client] =
              Disconnected(@)]
    ELSE backends

(* _handle_session_destroy *)
HandleSessionDestroy(sid) ==
    /\ Serve
    /\ manager_sessions' = (IF sid = 0 THEN manager_sessions ELSE Destroyed(sid))
    /\ backends' = (IF sid = 0 THEN backends ELSE BackendsAfterDestroy(sid))
    /\ handled' = Handled("session.destroy", sid,
            IF sid = 0 THEN <<>> ELSE <<SessionEv(sid, "session.shutdown", "-")>>,
            FALSE, FALSE, 0, FALSE, {}, <<>>)
    /\ UNCHANGED last_session_id

(* ProxySessionManager.delete_session *)
WithoutSession(sid) == [k \in Known \ {sid} |-> manager_sessions[k]]

(* _handle_session_delete *)
HandleSessionDelete(sid) ==
    /\ Serve
    /\ manager_sessions' = (IF sid = 0 THEN manager_sessions ELSE WithoutSession(sid))
    /\ backends' = (IF sid = 0 THEN backends ELSE BackendsAfterDestroy(sid))
    /\ handled' = Handled("session.delete", sid, <<>>, FALSE, FALSE, 0,
            sid # 0 /\ sid \in Known, {}, <<>>)
    /\ UNCHANGED last_session_id

(* _handle_session_list *)
HandleSessionList ==
    /\ Serve
    /\ handled' = Handled("session.list", 0, <<>>, FALSE, FALSE, 0, FALSE,
            Known, <<>>)
    /\ UNCHANGED <<manager_sessions, last_session_id, backends, sdkVars>>

(* _handle_session_get_messages *)
HandleSessionGetMessages(sid) ==
    /\ Serve
    /\ handled' = Handled("session.getMessages", sid, <<>>, FALSE, FALSE, 0,
            FALSE, {},
            IF sid \in Known THEN manager_sessions[sid].events ELSE <<>>)
    /\ UNCHANGED <<manager_sessions, last_session_id, backends, sdkVars>>

(* _handle_session_get_last_id *)
HandleSessionGetLastId ==
    /\ Serve
    /\ handled' = Handled("session.getLastId", 0, <<>>, FALSE, FALSE,
            last_session_id, FALSE, {}, <<>>)
    /\ UNCHANGED <<manager_sessions, last_session_id, backends, sdkVars>>

\* a client that always passes for connected
AlwaysConnected(client) == FALSE

(* AcpClient.prompt: `if not self._connection: raise RuntimeError` *)
NotConnected(client) == ~client.connection

(* _handle_session_send with send_message and AcpClient.prompt: the        *)
(* backend answers session/new and session/prompt or fails them, and may   *)
(* have a terminal created while it works on the prompt                    *)
PromptOutcomes == {"ok", "new_session_fails", "prompt_fails"}
HandleSessionSend(sid, outcome, terminal) ==
    LET prelude == <<SessionEv(sid, "user.message", "-"),
                     SessionEv(sid, "assistant.turn_start", "-")>>
        failed(frames, prompted) ==
            Handled("session.send", sid,
                    frames \o <<SessionEv(sid, "session.error", "-")>>,
                    prompted, TRUE, 0, FALSE, {}, <<>>)
        b == manager_sessions[sid].backend_client
        client == backends[b]
        fresh == ~client.session_id
        started == [client EXCEPT !.session_id = TRUE,
                                  !.pending_model = IF fresh THEN NoModel ELSE @]
        worked == [started EXCEPT !.terminals = @ + terminal]
        complete == <<SessionEv(sid, "assistant.turn_end", "-"),
                      SessionEv(sid, "session.idle", "-")>>
    IN  /\ Serve
        /\ terminal = 1 => sid \in Known /\ client.terminals < MaxTerminals
        /\ UNCHANGED last_session_id
        /\ IF sid = 0
           THEN /\ handled' = Handled("session.send", sid, <<>>, FALSE, TRUE,
                        0, FALSE, {}, <<>>)
                /\ UNCHANGED <<manager_sessions, backends, sdkVars>>
           ELSE IF sid \notin Known \/ NotConnected(client)
           THEN /\ handled' = failed(prelude, FALSE)
                /\ UNCHANGED <<manager_sessions, backends, sdkVars>>
           ELSE IF fresh /\ outcome = "new_session_fails"
           THEN /\ handled' = failed(prelude, FALSE)
                /\ UNCHANGED <<manager_sessions, backends, sdkVars>>
           ELSE IF outcome = "ok"
           THEN /\ backends' = [backends EXCEPT ![b] = worked]
                /\ manager_sessions' = [manager_sessions EXCEPT
                        ![sid].events = @ \o complete]
                /\ handled' = Handled("session.send", sid,
                        prelude \o complete
                            \o <<SessionEv(sid, "assistant.message", "-")>>,
                        TRUE, FALSE, 0, FALSE, {}, <<>>)
           ELSE /\ backends' = [backends EXCEPT ![b] = worked]
                /\ handled' = failed(prelude, TRUE)
                /\ UNCHANGED manager_sessions

(* AcpProxyServer.stop with ProxySessionManager.close_all *)
Stop ==
    /\ running
    /\ running' = FALSE
    /\ backends' = [i \in DOMAIN backends |->
            IF \E sid \in Known : manager_sessions[sid].backend_client = i
            THEN Disconnected(backends[i]) ELSE backends[i]]
    /\ manager_sessions' = NoSessions
    /\ UNCHANGED <<last_session_id, served, handled, stubVars, agentVars, stdioVars, sdkVars>>

SendIds == ManagerIds \cup {0}
\* the model parameter of session.create and session.resume
CreateModels == {"m1"}
NextSessions ==
    \/ \E sid \in SendIds, cwd \in Cwds, model \in CreateModels,
          outcome \in ConnectOutcomes :
            \/ HandleSessionCreate(sid, cwd, model, outcome)
            \/ HandleSessionResume(sid, cwd, model, outcome)
    \/ \E sid \in SendIds :
            \/ HandleSessionDestroy(sid)
            \/ HandleSessionDelete(sid)
            \/ HandleSessionGetMessages(sid)
            \/ \E outcome \in PromptOutcomes, terminal \in {0, 1} :
                    HandleSessionSend(sid, outcome, terminal)
    \/ HandleSessionList
    \/ HandleSessionGetLastId
    \/ Stop

SpecSessions == Init /\ [][NextSessions]_vars


(* ======================= the event log and the wire =================== *)

\* the events of the session.event notifications among the frames
EventsOf(frames) ==
    LET f == SelectSeq(frames, LAMBDA x : x.k = "event")
    IN [i \in 1..Len(f) |-> f[i].ev]

\* the events the session's event sink has been called with, in order
SinkDelivered ==
    LET f == SelectSeq(wire, LAMBDA x : x.k = "event" /\ x.via = "sink")
    IN [i \in 1..Len(f) |-> f[i].ev]

\* C1: whenever no on_complete of the session is suspended between its two
\* sink calls, the session's log (what session.getMessages returns) is the
\* list of events its event sink was called with, in the same order.
C1_LogIsSinkOrder == pc # "complete_mid" => events = SinkDelivered

\* the session.event notifications sent for the session since it was created
SessionStream ==
    LET start == CHOOSE i \in DOMAIN wire : wire[i].ev.type = "session.start"
    IN EventsOf(SubSeq(wire, start, Len(wire)))

\* C2: when session.getMessages is served for a session that exists, the log
\* it returns is exactly the list of session.event notifications the CPP side
\* has been sent for the session, in the same order.
C2_ReplayIsStream ==
    (pc = "dispatch" /\ handler.kind = "getMessages" /\ sessExists)
        => SessionEvents = SessionStream

StreamedTypes ==
    {"assistant.message_delta", "assistant.reasoning_delta",
     "tool.execution_start", "tool.execution_complete"}

\* the frame of the last user.message written before frame r
TurnStartsAt(r) ==
    CHOOSE s \in 1..r :
        /\ wire[s].ev.type = "user.message"
        /\ \A j \in (s + 1)..(r - 1) : wire[j].ev.type # "user.message"

\* the frames s..r are one turn in the order of a successful session.send
TurnInOrder(s, r) ==
    /\ r - s >= 5
    /\ wire[s + 1].ev.type = "assistant.turn_start"
    /\ \A j \in (s + 2)..(r - 4) : wire[j].ev.type \in StreamedTypes
    /\ wire[r - 3].ev.type = "assistant.turn_end"
    /\ wire[r - 2].ev.type = "session.idle"
    /\ wire[r - 1].ev.type = "assistant.message"

\* C3: the frames of every successful session.send are, in this order,
\* user.message, assistant.turn_start, streamed events, assistant.turn_end,
\* session.idle, one assistant.message, and then the response.
C3_TurnOrder ==
    \A r \in DOMAIN wire :
        (wire[r].k = "result" /\ wire[r].via = "send") => TurnInOrder(TurnStartsAt(r), r)

(* ============================ streamed text ============================ *)

\* the deltaContent of the assistant.message_delta events the CPP side was sent
Deltas ==
    LET f == SelectSeq(wire, LAMBDA x : x.k = "event"
                                         /\ x.ev.type = "assistant.message_delta")
    IN [i \in 1..Len(f) |-> f[i].ev.text]

DedupScenario ==
    <<TextUpdate(He), TextUpdate(Hello), TextUpdate(Hello), TextUpdate(World)>>

\* C4: when the text updates handled in one prompt are "He", "Hello", "Hello",
\* " world", the deltas the CPP side was sent are "He", "llo", " world" and
\* the text prompt returns for the final assistant.message is "Hello world".
C4_DedupScenario ==
    (inbound = DedupScenario /\ handler.kind = "send" /\ pc = "respond")
        => /\ Deltas = <<He, <<"l", "l", "o">>, World>>
           /\ text_buffer = Hello \o World

\* C5: a handled text chunk that is non-empty, differs from the buffer and
\* does not start with it is appended to the buffer and sent on unchanged as
\* one delta, whatever the buffer holds.
C5_OtherChunkAppended ==
    [][\A t \in Chunks :
          (/\ inbound' = Append(inbound, TextUpdate(t))
           /\ t # <<>>
           /\ t # text_buffer
           /\ ~StartsWith(t, text_buffer))
              => /\ text_buffer' = text_buffer \o t
                 /\ Deltas' = Append(Deltas, t)]_vars

(* ================================ abort ================================ *)

\* C6: a session.abort that reached the server while a session.send was
\* waiting for the backend is forwarded to the backend as a cancel while that
\* prompt is still outstanding.
C6_CancelWhileOutstanding ==
    \A i \in DOMAIN cancels : cancels[i].during => cancels[i].outstanding

(* ================================ tools ================================ *)

\* the tool.execution_complete frames for the tool call of frame s that were
\* written after it and before frame q
CompletesBetween(s, q) ==
    {c \in (s + 1)..(q - 1) : /\ wire[c].ev.type = "tool.execution_complete"
                              /\ wire[c].ev.id = wire[s].ev.id}

\* C7: no tool.execution_start X is followed by more than one
\* tool.execution_complete X before the session's next session.idle (of
\* "exactly one", the half that a finite run of a turn without session.error
\* or abort refutes).
C7_OneCompletePerStart ==
    \A q \in DOMAIN wire : wire[q].ev.type = "session.idle" =>
        \A s \in 1..(q - 1) : wire[s].ev.type = "tool.execution_start" =>
            Cardinality(CompletesBetween(s, q)) <= 1

(* ========================== the pending model ========================== *)

\* the stores into the pending slot made before request i and after the last
\* successful new_session before it
StoresBefore(i) ==
    {j \in 1..(i - 1) : /\ trace[j].m = "store_model"
                        /\ \A k \in (j + 1)..(i - 1) : trace[k].m # "new_session_ok"}

\* the model set_model left pending for the new_session answered at i
PendingAt(i) ==
    IF StoresBefore(i) = {} THEN NoModel
    ELSE trace[CHOOSE j \in StoresBefore(i) : \A k \in StoresBefore(i) : k <= j].a

\* C8: when new_session succeeds after set_model(M) was called without a
\* session, the next request sent is set_session_model with model M; when no
\* set_model was called since the last successful new_session, no
\* set_session_model follows it; and outside new_session the pending slot
\* holds exactly the model stored since the last successful new_session.
C8_PendingModelOnce ==
    /\ \A i \in DOMAIN trace : trace[i].m = "new_session_ok" =>
           IF PendingAt(i) # NoModel
           THEN i < Len(trace) /\ trace[i + 1] = Entry("set_session_model", PendingAt(i))
           ELSE i = Len(trace) \/ trace[i + 1].m # "set_session_model"
    /\ pc # "model_wait" => pending_model = PendingAt(Len(trace) + 1)

\* a pending model was sent with a new_session, and a later new_session
\* succeeded and sent none
C8_Witness ==
    /\ pc = "idle"
    /\ pending_model = NoModel
    /\ \E i \in DOMAIN trace :
           /\ trace[i].m = "new_session_ok"
           /\ PendingAt(i) \in Models
           /\ i + 1 < Len(trace)
           /\ trace[Len(trace)].m = "new_session_ok"

(* ====================== connect and disconnect ========================= *)

\* the library user enters the method in this step
Calls(name) == nCalls' = nCalls + 1 /\ lastCall' = name

\* C9: connect on a client that has a subprocess spawns nothing and sends no
\* initialize; disconnect on a client without connection and subprocess
\* sends no signal, returns at once and leaves the client's fields as they are.
C9_Idempotent ==
    [][/\ (Calls("connect") /\ process # 0) =>
              /\ procs' = procs
              /\ trace' = trace
              /\ pc' = "idle"
       /\ (Calls("disconnect") /\ process = 0 /\ ~connection) =>
              /\ signals' = signals
              /\ termProcs' = termProcs
              /\ clientVars' = clientVars
              /\ pc' = "idle"]_vars

\* the kill signal was sent to subprocess p
KillSent(p) == \E i \in DOMAIN signals : signals[i] = Entry("kill", p)

\* C10: when disconnect has returned, the terminal registry is empty, the
\* client is uninitialized and holds no process handle, and the exit of every
\* agent subprocess was observed (or its kill deadline passed).
C10_AfterDisconnect ==
    (lastCall = "disconnect" /\ pc = "idle") =>
        /\ terminals = {}
        /\ ~initialized
        /\ process = 0
        /\ \A p \in DOMAIN procs : procs[p] = "observed" \/ KillSent(p)

(* ===================== the order of disconnect's steps ================= *)

\* the signals sent in this step
NewSignals == SubSeq(signals', Len(signals) + 1, Len(signals'))

Sends(sigs, m) == \E i \in DOMAIN sigs : sigs[i].m = m


NewRequests == SubSeq(trace', Len(trace) + 1, Len(trace'))

\* C12: no new_session and no prompt request is sent to the agent while
\* connect's initialize request is unanswered.
C12_BlockedUntilInitialized ==
    [][(Sends(NewRequests, "new_session") \/ Sends(NewRequests, "prompt"))
           => pc # "connect_init"]_vars

(* ========================== terminal identifiers ======================= *)

\* C13: the ids create_terminal has returned are terminal-1, terminal-2, ...
\* in the order of the returns: the first is 1, each one is greater than all
\* earlier ones (so none is returned twice), the counter is the last one
\* returned, and every registered id is one of them.
C13_FreshTerminalIds ==
    /\ \A i \in DOMAIN termProcs :
           /\ termProcs[i].id >= 1
           /\ \A j \in DOMAIN termProcs : i < j => termProcs[i].id < termProcs[j].id
    /\ termProcs # <<>> =>
           termProcs[1].id = 1 /\ terminal_counter = termProcs[Len(termProcs)].id
    /\ terminals \subseteq {termProcs[i].id : i \in DOMAIN termProcs}

\* two creates were in flight; the first terminal was killed and its entry
\* removed before the second create returned its id
C13_Witness ==
    /\ connection
    /\ signals = <<>>
    /\ Len(termProcs) = 2
    /\ termProcs[1].st = "killed"
    /\ termProcs[2].after = {termProcs[1].id}
    /\ terminals = {termProcs[2].id}

(* ==================== release_terminal and kill_terminal =============== *)

\* the entries other than id stay as they are
OthersKept(id) == terminals' \ {id} = terminals \ {id}

\* C14: release_terminal removes the entry of its id and leaves every process
\* alone; kill_terminal kills the process of its id and, once the exit was
\* awaited, removes the entry; for an id without an entry either one changes
\* neither the registry nor a process; and none of them ends with an error.
C14_ReleaseAndKill ==
    [][\A id \in TerminalIds :
          /\ ReleaseTerminal(id) =>
                 /\ id \notin terminals'
                 /\ OthersKept(id)
                 /\ termProcs' = termProcs
                 /\ signals' = signals
                 /\ ~termReply'.err
                 /\ id \notin terminals => terminals' = terminals
          /\ KillTerminalStart(id) =>
                 /\ terminals' = terminals
                 /\ ~termReply'.err
                 /\ id \notin terminals => termProcs' = termProcs
                 /\ id \in terminals =>
                        /\ termProcs'[Held(termProcs, id)].st = "killed"
                        /\ \A i \in DOMAIN termProcs :
                               i # Held(termProcs, id) => termProcs'[i] = termProcs[i]
          /\ KillTerminalFinish(id) =>
                 /\ id \notin terminals'
                 /\ OthersKept(id)
                 /\ termProcs' = termProcs
                 /\ \E i \in DOMAIN termProcs :
                        termProcs[i].id = id /\ termProcs[i].st = "killed"
                 /\ ~termReply'.err]_vars

\* one terminal was released and still runs, and a kill_terminal for an id
\* without an entry has returned
C14_Witness ==
    /\ connection
    /\ Len(termProcs) = 1
    /\ termProcs[1].st = "running"
    /\ terminals = {}
    /\ termReply = Reply("kill", FALSE, FALSE)

(* ============================ read_text_file =========================== *)

\* the cases the claim calls failures: the hook raised, or the file had to be
\* read and was missing or unreadable
ReadFailed ==
    \/ fileReply.hook = "raises"
    \/ fileReply.hook \in {"unset", "none"} /\ fileReply.fs \in {"missing", "io_error"}

\* C15: whatever the hook and the file system do, read_text_file answers with
\* a result value, whose content is "" and which carries an error string when
\* the read failed.
C15_ReadNeverRaises ==
    fileReply.hook # "-" =>
        /\ ~fileReply.out.raised
        /\ ReadFailed => fileReply.out.content = <<>> /\ fileReply.out.error # "-"

(* ===================== handlers that raise in dispatch ================= *)

\* C16: when a handler raised during the dispatch of a session update, the
\* exception did not leave session_update and on_error was called with it.
C16_HandlerErrorCaught ==
    dispatched.raised => ~dispatched.propagated /\ dispatched.errors = 1

(* =========================== set_session_mode ========================== *)

\* C20: set_session_mode for an unknown session or a mode outside the five
\* valid ones answers with ValueError and changes no session; for a known
\* session and a valid mode it sets that session's permission_mode and
\* changes nothing else.
C20_SetSessionMode ==
    [][\A sid \in SessionIds, mode \in ModeIds :
          AgentSetSessionMode(sid, mode) =>
              IF \/ sid \notin DOMAIN sessions
                 \/ mode \notin {"default", "acceptEdits", "plan",
                                 "bypassPermissions", "dontAsk"}
              THEN /\ answered'.out = "ValueError"
                   /\ sessions' = sessions
              ELSE /\ answered'.out = "ok"
                   /\ sessions' = [sessions EXCEPT ![sid].permission_mode = mode]
                   /\ sessions'[sid].permission_mode = mode]_vars

\* two sessions in different modes, and a set_session_mode that was refused
C20_Witness ==
    /\ Len(sessions) = 2
    /\ sessions[1].permission_mode = "plan"
    /\ sessions[2].permission_mode = "default"
    /\ answered = Answer("set_session_mode", 2, "ValueError")

(* ====================== cancel and the stop reason ===================== *)

\* C17: a prompt that has returned "end_turn" was not reached by a cancel
\* while it ran.
C17_EndTurnOnlyUncancelled ==
    \A sid \in DOMAIN sessions :
        (answered = Answer("prompt", sid, "end_turn") /\ turn[sid].at = "idle")
            => ~turn[sid].arrived

(* ============================ tool_use_cache =========================== *)

\* C18: once the tool_call_update of a tool call was sent, the session's
\* tool_use_cache holds no entry under that id.
C18_CacheUntilResult ==
    \A sid \in DOMAIN sessions : \A id \in ToolIds :
        [u |-> "tool_call_update", id |-> id] \in emitted[sid]
            => id \notin sessions[sid].tool_use_cache

(* ============================= permissions ============================= *)

\* C19: can_use_tool allows without asking exactly when the session is in
\* bypassPermissions, or in acceptEdits and the tool is Write, Edit or
\* MultiEdit; in every other case it sends session/request_permission with the
\* options allow_always, allow, reject, and once the client has answered the
\* tool is allowed if allow or allow_always was selected and else denied with
\* "User denied permission".
C19_PermissionDecision ==
    /\ [][\A sid \in SessionIds, tool \in Tools :
             CanUseTool(sid, tool) =>
                 IF \/ sessions[sid].permission_mode = "bypassPermissions"
                    \/ /\ sessions[sid].permission_mode = "acceptEdits"
                       /\ tool \in {"Write", "Edit", "MultiEdit"}
                 THEN ~permission'.asked /\ permission'.result = "allow"
                 ELSE /\ permission'.asked
                      /\ permission'.options = <<"allow_always", "allow", "reject">>
                      /\ permission'.result = "pending"]_vars
    /\ [](/\ permission.result = "allow" /\ permission.asked =>
                 /\ permission.answer.outcome = "selected"
                 /\ permission.answer.option_id \in {"allow", "allow_always"}
          /\ (permission.asked /\ permission.answer.outcome # "unanswered") =>
                 IF /\ permission.answer.outcome = "selected"
                    /\ permission.answer.option_id \in {"allow", "allow_always"}
                 THEN permission.result = "allow"
                 ELSE /\ permission.result = "deny"
                      /\ permission.message = "User denied permission")

\* in mode default the handler asked about Write, the client selected reject
\* and the tool was denied
C19_Witness ==
    /\ permission.sid \in DOMAIN sessions
    /\ sessions[permission.sid].permission_mode = "default"
    /\ permission = Permission(permission.sid, "Write", TRUE,
                               <<"allow_always", "allow", "reject">>,
                               [outcome |-> "selected", option_id |-> "reject"],
                               "deny", "User denied permission")


(* ============================= fork_session ============================ *)

\* C21: fork_session of a known session adds exactly one session, under an id
\* no session had, with the given cwd and the original's permission_mode, and
\* changes no session that existed; fork_session of an unknown id raises
\* ValueError and adds no session
C21_ForkSession ==
    [][\A cwd \in Cwds, sid \in SessionIds :
          AgentForkSession(cwd, sid) =>
              IF sid \in DOMAIN sessions
              THEN /\ answered'.out = "ok"
                   /\ answered'.sid \notin DOMAIN sessions
                   /\ DOMAIN sessions' = DOMAIN sessions \cup {answered'.sid}
                   /\ sessions'[answered'.sid].cwd = cwd
                   /\ sessions'[answered'.sid].permission_mode
                          = sessions[sid].permission_mode
                   /\ \A id \in DOMAIN sessions : sessions'[id] = sessions[id]
              ELSE /\ answered'.out = "ValueError"
                   /\ sessions' = sessions]_vars

\* a session in acceptEdits under /tmp was forked into /home
C21_Witness ==
    /\ answered = Answer("fork_session", 2, "ok")
    /\ sessions[1].cwd = "/tmp"
    /\ sessions[1].permission_mode = "acceptEdits"
    /\ sessions[2].cwd = "/home"
    /\ sessions[2].permission_mode = "acceptEdits"

(* =========================== set_session_model ========================= *)

\* C22: after set_session_model(model_id = M, session_id = S) on an existing
\* session S, the model recorded on session S is M
C22_ModelRecorded ==
    [][\A sid \in SessionIds, model_id \in Models :
          (AgentSetSessionModel(sid, model_id) /\ sid \in DOMAIN sessions) =>
              ModelOf(sessions'[sid]) = model_id]_vars

(* ================== requests that name an unknown session ============== *)

\* C23: a session.send, session.destroy or session.abort request whose
\* sessionId the session manager does not know is answered with an error
\* response (-32603, the handler raised), not with a result
C23_UnknownSessionIsError ==
    [][((FinishSend \/ FailSend \/ FinishDestroy \/ HandleAbort) /\ ~sessExists)
          => wire'[Len(wire')].k = "error"]_vars

(* ======================= requests and their responses ================== *)

\* the messages the server has sent in answer to the i-th frame it read
ResponsesTo(i) ==
    LET r == SelectSeq(sent, LAMBDA x : x.re = i)
    IN [k \in 1..Len(r) |-> r[k].message]

\* the reader is through with the i-th frame it read
HandledFrame(i) ==
    i \in DOMAIN decoded /\ decoded[i].ok
       /\ ~(tasks["reader"].re = i /\ tasks["reader"].at = "send")

\* C24: every request with a non-null id receives exactly one response, with
\* the same id (integer or string): error -32601 if the method is unknown,
\* error -32603 with the exception's message if the handler raises, and the
\* handler's result otherwise; a notification never receives a response
C24_OneResponsePerRequest ==
    \A i \in DOMAIN decoded :
        LET m == decoded[i].message
            done == Handle(m.method.v, ParamsOf(m))
            r == ResponsesTo(i)
        IN (HandledFrame(i) /\ m.method.t = "str") =>
              IF m.id.t \in {"int", "str"}
              THEN /\ Len(r) = 1
                   /\ r[1].id = m.id
                   /\ r[1].method = Absent
                   /\ IF m.method.v \notin Handlers
                      THEN /\ r[1].error.code = -32601
                           /\ r[1].result = Absent
                      ELSE IF done.raised
                      THEN /\ r[1].error = [code |-> -32603,
                                            message |-> done.message]
                           /\ r[1].result = Absent
                      ELSE /\ r[1].error = NoError
                           /\ r[1].result = done.result
              ELSE r = <<>>

\* a request with a string id for an unknown method, a request whose handler
\* raised, a request that was served and a notification have been handled
C24_Witness ==
    /\ \E i \in DOMAIN decoded :
           /\ HandledFrame(i)
           /\ decoded[i].message \in {Request(StrOne, Foo, Absent),
                                       Request(IntOne, SessionSend, EmptyObject)}
           /\ Len(ResponsesTo(i)) = 1
    /\ \E i \in DOMAIN decoded :
           /\ HandledFrame(i)
           /\ decoded[i].message \in {Request(Absent, Ping, Absent),
                                       Request(IntOne, Ping, Object(<<"E9">>))}

(* ========================= responses that arrive ======================= *)

\* C28: a response (an id and a result or an error, no method) whose id
\* matches no pending request of the server is dropped: nothing is sent back
\* for it (the server sends no requests, so no id is pending)
C28_StrayResponseDropped ==
    \A i \in DOMAIN decoded :
        LET m == decoded[i].message
        IN (HandledFrame(i) /\ m.method = Absent /\ m.id.t \in {"int", "str"})
              => ResponsesTo(i) = <<>>

(* ====================== frames whose body is no JSON =================== *)

\* the frames written so far are well-formed except for their bodies
BodiesOnly(kinds) == \A k \in DOMAIN written : written[k].kind \in {"plain"} \cup kinds

\* the reader has consumed everything that was written
AllRead == input_stream = <<>> /\ tasks["reader"].at \in {"header", "stopped"}

\* the reader is through with the i-th frame it read, whatever it came to
Through(i) == ~(tasks["reader"].re = i /\ tasks["reader"].at = "send")

\* frames with the bodies of the given kinds are answered with a parse error
\* and the frames around them are decoded and handled as if they were alone
ParseErrorsFor(kinds) ==
    BodiesOnly(kinds) =>
        /\ Len(decoded) <= Len(written)
        /\ AllRead => Len(decoded) = Len(written)
        /\ \A i \in DOMAIN decoded :
               IF written[i].kind = "plain"
               THEN /\ decoded[i] = Decoded(TRUE, written[i].message, "")
                    /\ Through(i) => ResponsesTo(i) = Responses(written[i].message)
               ELSE /\ ~decoded[i].ok
                    /\ Through(i) => ResponsesTo(i) = <<ParseError>>

\* C25: a frame whose body is not valid JSON (an empty body under
\* Content-Length: 0, a text that is no JSON, bytes that are no UTF-8) is
\* answered with the parse error -32700, and the well-formed frames after it
\* are still read and handled
C25_ParseErrorNoLockup == ParseErrorsFor({"zero", "bad_json", "bad_utf8"})

(* ========================= additional header lines ===================== *)

\* the frames written so far are well-formed, some with a second header line
ExtraHeadersOnly ==
    \A k \in DOMAIN written :
        written[k].kind \in {"plain", "header_before", "header_after"}

\* C26: header lines other than Content-Length are ignored: a frame with
\* another header line before or after the Content-Length line is decoded to
\* the message of the frame without it, and so are the frames after it
C26_OtherHeadersIgnored ==
    ExtraHeadersOnly =>
        /\ Len(decoded) <= Len(written)
        /\ AllRead => Len(decoded) = Len(written)
        /\ \A i \in DOMAIN decoded :
               decoded[i] = Decoded(TRUE, written[i].message, "")

(* ============================ resynchronizing ========================== *)

\* the well-formed frames among the frames written so far
WellFormed == SelectSeq(written, LAMBDA f : f.kind = "plain")

\* C27: after a frame with a missing or a malformed Content-Length the reader
\* discards input up to the next header line and decodes the next well-formed
\* frame and all frames after it: of a stream of well-formed frames and such
\* frames, exactly the well-formed ones are decoded, in order
C27_Resynchronizes ==
    (\A k \in DOMAIN written :
         written[k].kind \in {"plain", "no_length", "bad_length"}) =>
        /\ Len(decoded) <= Len(WellFormed)
        /\ AllRead => Len(decoded) = Len(WellFormed)
        /\ \A i \in DOMAIN decoded :
               decoded[i] = Decoded(TRUE, WellFormed[i].message, "")

(* ============================ frame round trip ========================= *)

\* "Content-Length: " + byte length of the body + CRLF CRLF + body, for the
\* messages in order
FramedStream(messages) ==
    LET Framed(message) ==
            LET body == Utf8Encode(Dumps(message))
            IN ContentLength \o <<" ">> \o Str(Len(body))
                  \o <<"\r", "\n", "\r", "\n">> \o body
    IN Join([i \in 1..Len(messages) |-> Framed(messages[i])])

\* C29: the bytes written for the outbound messages are exactly
\* "Content-Length: " + byte length of the body + CRLF CRLF + body, one frame
\* after the other, and the server's reader, given a stream of such frames,
\* yields the same messages in the same order
C29_FrameRoundTrip ==
    /\ tasks["reader"].at # "payload" =>
           output_stream = FramedStream([i \in DOMAIN sent |-> sent[i].message])
    /\ Len(decoded) <= Len(written)
    /\ AllRead => Len(decoded) = Len(written)
    /\ \A i \in DOMAIN decoded : decoded[i] = Decoded(TRUE, written[i].message, "")

\* two frames as _send_message writes them, one with an escaped character,
\* have been read back, and a frame has been written to the output
C29_Witness ==
    /\ AllRead
    /\ Len(decoded) = 2
    /\ written[1].message = SendResult(IntOne, Object(<<"E9">>))
    /\ written[2].message = ParseError
    /\ Len(sent) >= 1
    /\ tasks["reader"].at # "payload"

(* ========================== concurrent senders ========================= *)

\* C30: when several tasks send on the connection, each frame's header and
\* payload are written contiguously: the output is the frames of the messages
\* in the order their headers were written, the last one possibly still
\* without its payload, and never bytes of one frame inside another
C30_FramesNeverInterleave ==
    LET messages == [i \in DOMAIN sent |-> sent[i].message]
        n == Len(messages)
    IN \/ output_stream = FramedStream(messages)
       \/ /\ n > 0
          /\ output_stream = FramedStream(SubSeq(messages, 1, n - 1))
                                \o Header(Payload(messages[n]))

\* the reader's response and the notifier's session.event are both written
\* and both tasks wait in drain()
C30_Witness ==
    /\ tasks["reader"].at = "drain"
    /\ tasks["notifier"].at = "drain"
    /\ \E i, j \in DOMAIN sent : sent[i].by = "reader" /\ sent[j].by = "notifier"
(* ---------------------------------------------------------------------- *)
\* C31: session.resume with a sessionId the manager knows rebinds the event
\* sink of that session to the resume handler's closure, emits exactly
\* session.resume{cwd} with the session's own working directory, and leaves
\* the set of sessions, every other field of the session and the backend
\* clients as they were; with an unknown sessionId it does what
\* session.create does under the supplied id (one backend client more, and
\* when the backend connects a session stored under that id, bound to the
\* create handler's sink, with a session.start event; an error response and
\* no session otherwise). Whenever a sessionId is returned it is the
\* requested one.
C31_Resume ==
    [][served' # served /\ handled'.method = "session.resume"
            /\ handled'.sid # 0 =>
        LET sid == handled'.sid
            b == Len(backends')
        IN  /\ ~handled'.error => handled'.sessionId = sid
            /\ IF sid \in Known
               THEN /\ manager_sessions' = [manager_sessions EXCEPT
                            ![sid].event_callback = "session.resume"]
                    /\ handled'.frames = <<SessionEv(sid, "session.resume",
                            manager_sessions[sid].working_directory)>>
                    /\ ~handled'.error
                    /\ backends' = backends
               ELSE /\ b = Len(backends) + 1
                    /\ IF handled'.error
                       THEN /\ manager_sessions' = manager_sessions
                            /\ handled'.frames = <<>>
                            /\ ~backends'[b].initialized
                       ELSE /\ DOMAIN manager_sessions' = Known \cup {sid}
                            /\ manager_sessions'[sid].backend_client = b
                            /\ manager_sessions'[sid].is_active
                            /\ manager_sessions'[sid].event_callback =
                                   "session.create"
                            /\ backends'[b].initialized
                            /\ last_session_id' = sid
                            /\ handled'.frames = <<SessionEv(sid, "session.start",
                                   manager_sessions'[sid].working_directory)>>]_vars

\* a known session was resumed from another working directory than its own,
\* and an unknown one was resumed too
C31_Witness ==
    /\ handled.method = "session.resume"
    /\ handled.sessionId = 2
    /\ handled.frames = <<SessionEv(2, "session.resume", "/home")>>
    /\ 1 \in Known /\ 2 \in Known
    /\ manager_sessions[1].event_callback = "session.create"
    /\ manager_sessions[2].event_callback = "session.resume"
    /\ Len(backends) = 2

(* ---------------------------------------------------------------------- *)
\* C32: session.getLastId returns the id of the session most recently
\* created or resumed: every session.create and session.resume that returns
\* a sessionId leaves that id as the last session id, and session.getLastId
\* returns the last session id.
C32_LastIdIsLatest ==
    [][served' # served =>
        /\ handled'.method \in {"session.create", "session.resume"}
                /\ ~handled'.error
            => last_session_id' = handled'.sessionId
        /\ handled'.method = "session.getLastId"
            => handled'.sessionId = last_session_id]_vars

(* ---------------------------------------------------------------------- *)
\* C33: session.destroy of a recorded session leaves it inactive with its
\* backend disconnected (no connection, the process terminated) and keeps
\* its record with its events, also when the session was destroyed before,
\* and is answered with a result; only session.delete (and the shutdown)
\* removes a record; session.list and session.getMessages return inactive
\* sessions too; session.delete returns success exactly when the id was
\* recorded, and no record with that id remains after it.
C33_DestroyKeepsDeleteRemoves ==
    [][served' # served =>
        LET sid == handled'.sid
            method == handled'.method
        IN  /\ method # "session.delete" => Known \subseteq DOMAIN manager_sessions'
            /\ method = "session.destroy" =>
                /\ ~handled'.error
                /\ sid \in Known =>
                    LET b == manager_sessions[sid].backend_client
                    IN  /\ manager_sessions' =
                               [manager_sessions EXCEPT ![sid].is_active = FALSE]
                        /\ ~backends'[b].connection
                        /\ backends'[b].process # "running"
            /\ method = "session.list" => handled'.listed = Known
            /\ method = "session.getMessages" /\ sid \in Known =>
                handled'.events = manager_sessions[sid].events
            /\ method = "session.delete" =>
                /\ handled'.success = (sid \in Known)
                /\ DOMAIN manager_sessions' = Known \ {sid}
                /\ ~handled'.error]_vars

\* session 1 was deleted with success, its backend having been spawned and
\* terminated, while the destroyed session 2 is still recorded
C33_Witness ==
    /\ handled.method = "session.delete"
    /\ handled.sid = 1
    /\ handled.success
    /\ 1 \notin Known
    /\ 2 \in Known
    /\ ~manager_sessions[2].is_active
    /\ backends[manager_sessions[2].backend_client].process = "terminated"
    /\ \A i \in DOMAIN backends : backends[i].process = "terminated"

(* ---------------------------------------------------------------------- *)
\* C34: after the server was stopped, no backend client the manager ever
\* constructed still has a connection, a running agent subprocess or a
\* terminal subprocess, whatever requests were handled before.
C34_ShutdownLeavesNothing ==
    ~running =>
        \A i \in DOMAIN backends :
            /\ ~backends[i].connection
            /\ backends[i].process # "running"
            /\ backends[i].terminals = 0

(* ---------------------------------------------------------------------- *)
\* C39: a destroyed ProxySession stays inactive and its backend client stays
\* without connection and without a running process for as long as the
\* session is recorded, whatever request is handled; a session.send on a
\* destroyed session, resumed meanwhile or not, sends no session/prompt to
\* a backend, ends its events with session.error and is answered with an
\* error.
C39_DestroyedStaysDead ==
    [][served' # served =>
        /\ \A sid \in Known :
            LET b == manager_sessions[sid].backend_client
            IN  /\ ~manager_sessions[sid].is_active
                /\ sid \in DOMAIN manager_sessions'
                /\ manager_sessions'[sid].backend_client = b
                => /\ ~manager_sessions'[sid].is_active
                   /\ ~backends'[b].connection
                   /\ backends'[b].process # "running"
        /\ \A i \in DOMAIN backends :
            backends[i].process = "terminated" => backends'[i] = backends[i]
        /\ handled'.method = "session.send" /\ handled'.sid \in Known
                /\ ~manager_sessions[handled'.sid].is_active
            => /\ ~handled'.prompted
               /\ handled'.error
               /\ backends' = backends
               /\ handled'.frames[Len(handled'.frames)] =
                      SessionEv(handled'.sid, "session.error", "-")]_vars

\* session 1 was destroyed and resumed (in either order: the states are the
\* same) and then sent a prompt
C39_Witness ==
    /\ handled.method = "session.send"
    /\ handled.sid = 1
    /\ handled.error
    /\ 1 \in Known
    /\ ~manager_sessions[1].is_active
    /\ manager_sessions[1].event_callback = "session.resume"
    /\ backends[manager_sessions[1].backend_client].process = "terminated"

(* ---------------------------------------------------------------------- *)
\* C35: every session.send that is answered with an error, the backend
\* having failed the prompt or the send having failed before it, has a
\* session.error event between its user.message and the error response,
\* and no assistant.message, assistant.turn_end or session.idle there.
C35_FailedSend ==
    \A r \in DOMAIN wire :
        (wire[r].k = "error" /\ wire[r].via = "send") =>
            LET s == TurnStartsAt(r)
            IN  /\ \E j \in (s + 1)..(r - 1) : wire[j].ev.type = "session.error"
                /\ \A j \in s..(r - 1) :
                        wire[j].ev.type \notin
                            {"assistant.message", "assistant.turn_end",
                             "session.idle"}

\* the one prompt that was sent to the backend failed after a streamed event,
\* and the send was answered with an error
C35_Witness ==
    /\ Len(wire) > 0
    /\ wire[Len(wire)].k = "error"
    /\ wire[Len(wire)].via = "send"
    /\ Len(SelectSeq(trace, LAMBDA e : e.m = "prompt")) = 1
    /\ \A j \in DOMAIN wire : wire[j].k # "result" \/ wire[j].via # "send"
    /\ \E j \in DOMAIN wire : wire[j].ev.type \in StreamedTypes

(* ---------------------------------------------------------------------- *)
\* C36: when the backend rejects the set_session_model that new_session
\* sends for the pending model, new_session returns instead of raising, the
\* client holds the session id of the new session, and the pending slot is
\* empty; the rejected model is sent with no later new_session unless
\* set_model stored it again.
C36_RejectedModel ==
    /\ [][ModelRejected =>
            /\ trace'[Len(trace')] = Entry("new_session_returns", "-")
            /\ pc' = "idle"
            /\ session_id' = FreshSessionId - 1
            /\ session_id' # 0
            /\ pending_model' = NoModel]_vars
    /\ [](\A i \in DOMAIN trace, j \in DOMAIN trace :
            /\ trace[i].m = "model_rejected"
            /\ i < j
            /\ trace[j].m = "set_session_model"
            => \E k \in (i + 1)..(j - 1) :
                    trace[k].m \in {"store_model", "direct_model"})

\* a pending model was rejected, and a later new_session succeeded and sent
\* no set_session_model
C36_Witness ==
    /\ pc = "idle"
    /\ \E i \in DOMAIN trace :
           /\ trace[i].m = "model_rejected"
           /\ i + 1 < Len(trace)
           /\ trace[Len(trace)].m = "new_session_ok"
           /\ \A k \in (i + 1)..Len(trace) : trace[k].m # "store_model"

(* ---------------------------------------------------------------------- *)
\* C37: with the agent adapter as a session's backend, the n-th
\* tool.execution_complete event written to the CPP client belongs to the
\* n-th tool result of the SDK and has success = true exactly when that
\* tool-result block was not an error.
ToolCompletes ==
    SelectSeq(wire, LAMBDA f : f.ev.type = "tool.execution_complete")
C37_SuccessIffNotError ==
    \A n \in DOMAIN ToolCompletes :
        /\ n <= Len(tool_results)
        /\ ToolCompletes[n].ev.id = tool_results[n].tool_use_id
        /\ ToolCompletes[n].ev.ok = ~tool_results[n].is_error

(* ---------------------------------------------------------------------- *)
\* C38: the content of every final assistant.message (what AcpClient.prompt
\* returned) is the concatenation, in order, of the deltas on_text got since
\* that prompt began, nothing of an earlier prompt in it; and ClaudeClient's
\* buffer is at every moment of a query the concatenation of what on_text
\* got since the query began, and is what the query returns.
TurnDeltas(s, r) ==
    LET f == SelectSeq(SubSeq(wire, s, r),
                       LAMBDA x : x.ev.type = "assistant.message_delta")
    IN  [i \in 1..Len(f) |-> f[i].ev.text]
C40_AlwaysAllow ==
    /\ [][\A options \in OfferedOptions :
            request_permission(options) =>
                /\ permission_reply'.outcome = "selected"
                /\ permission_reply'.option_id = "allow"
                /\ wire' = wire
                /\ <<output_stream, sent>>' = <<output_stream, sent>>]_vars
    /\ [](\A i \in DOMAIN wire :
            \/ wire[i].k \in {"result", "error"}
            \/ /\ wire[i].k = "event"
               /\ wire[i].ev.type \in
                    StreamedTypes \cup
                    {"session.start", "session.resume", "user.message",
                     "assistant.turn_start", "assistant.turn_end",
                     "session.idle", "assistant.message", "session.error"})

\* the backend offered no option with the id "allow" and was answered
\* "allow" while its prompt was outstanding
C40_Witness ==
    /\ permission_reply.options = <<"allow_once", "allow_always", "reject_once">>
    /\ permission_reply.option_id = "allow"
    /\ bePrompt = "running"
    /\ \E i \in DOMAIN wire : wire[i].ev.type = "tool.execution_start"

====
